---- MODULE Spec2Model ----
(***************************************************************************)
(* Cascade inference engine of monitor-backend.                            *)
(*                                                                         *)
(* Three generations of the worker are modelled side by side:              *)
(*   "v1"  worker.js                 (cap 10, guard  val !== null)         *)
(*   "v2"  unnamed/part_000 1..629   (cap 15, guard  !isNaN && isFinite)   *)
(*   "v3"  unnamed/part_001          (cap 20, structured confidence,       *)
(*                                    constraint validation, modes)        *)
(*                                                                         *)
(* Numbers are fixed-point hundredths (220 mg/dL is 22000); a confidence   *)
(* score is an integer number of hundredths (0.92 is 92).  A JavaScript    *)
(* value is a record [k, n, s]: k is its kind, n its number, s its string  *)
(* (for a string) or its `state` field (for an object).                    *)
(***************************************************************************)
EXTENDS Integers, Sequences, FiniteSets, TLC

\* ------------------------------------------------------------------------
\* Bounds of the model
\* ------------------------------------------------------------------------
MaxInputs == 4
MaxExtraPasses == 2
MaxLibInputs == 2
MaxClock == 2
MaxCalls == 2
MaxDepth == 3

\* ------------------------------------------------------------------------
\* JavaScript values and arithmetic
\* ------------------------------------------------------------------------
Num(n) == [k |-> "num", n |-> n, s |-> ""]
NaN == [k |-> "nan", n |-> 0, s |-> ""]
PosInf == [k |-> "inf", n |-> 1, s |-> ""]
NegInf == [k |-> "inf", n |-> -1, s |-> ""]
Null == [k |-> "null", n |-> 0, s |-> ""]
Undefined == [k |-> "undef", n |-> 0, s |-> ""]
Str(s) == [k |-> "str", n |-> 0, s |-> s]
Obj(s) == [k |-> "obj", n |-> 0, s |-> s]

\* v[name]: a missing property reads as undefined
Get(v, name) == IF name \in DOMAIN v THEN v[name] ELSE Undefined

\* typeof
TypeOf(x) ==
  CASE x.k \in {"num", "nan", "inf"} -> "number"
    [] x.k \in {"null", "obj"} -> "object"
    [] x.k = "str" -> "string"
    [] OTHER -> "undefined"

\* ToNumber: null is 0; undefined, an object and a non-numeric string are NaN
ToNumber(x) ==
  CASE x.k \in {"num", "nan", "inf"} -> x
    [] x.k = "null" -> Num(0)
    [] OTHER -> NaN

Abs(n) == IF n < 0 THEN -n ELSE n
Sgn(n) == IF n < 0 THEN -1 ELSE IF n > 0 THEN 1 ELSE 0

\* truncating quotient, defined for a nonzero divisor of either sign
Quot(a, b) == Sgn(a) * Sgn(b) * (Abs(a) \div Abs(b))

Neg(a) ==
  CASE a.k = "nan" -> NaN
    [] a.k = "inf" -> IF a.n > 0 THEN NegInf ELSE PosInf
    [] OTHER -> Num(-a.n)

Add(a, b) ==
  IF a.k = "nan" \/ b.k = "nan" THEN NaN
  ELSE IF a.k = "inf" /\ b.k = "inf" THEN (IF a.n = b.n THEN a ELSE NaN)
  ELSE IF a.k = "inf" THEN a
  ELSE IF b.k = "inf" THEN b
  ELSE Num(a.n + b.n)

Mul(a, b) ==
  IF a.k = "nan" \/ b.k = "nan" THEN NaN
  ELSE IF a.k = "inf" \/ b.k = "inf" THEN
         (IF Sgn(a.n) * Sgn(b.n) = 0 THEN NaN
          ELSE IF Sgn(a.n) * Sgn(b.n) > 0 THEN PosInf ELSE NegInf)
  ELSE Num(Quot(a.n * b.n, 100))

Div(a, b) ==
  IF a.k = "nan" \/ b.k = "nan" THEN NaN
  ELSE IF a.k = "inf" /\ b.k = "inf" THEN NaN
  ELSE IF a.k = "inf" THEN (IF Sgn(a.n) * Sgn(b.n) < 0 THEN NegInf ELSE PosInf)
  ELSE IF b.k = "inf" THEN Num(0)
  ELSE IF b.n = 0 THEN
         (IF a.n = 0 THEN NaN ELSE IF a.n > 0 THEN PosInf ELSE NegInf)
  ELSE Num(Quot(a.n * 100, b.n))

\* the JavaScript operators  x - y,  x * y,  x / y  on arbitrary values
JsSub(x, y) == Add(ToNumber(x), Neg(ToNumber(y)))
JsMul(x, y) == Mul(ToNumber(x), ToNumber(y))
JsDiv(x, y) == Div(ToNumber(x), ToNumber(y))
\* x + y where neither operand is a string or an object
JsAdd(x, y) == Add(ToNumber(x), ToNumber(y))

\* position of a number on the extended line, for comparisons
Key(a) == IF a.k = "inf" THEN a.n * 1000000000 ELSE a.n

\* x < y, x <= y, x > y, x >= y against a number: false when either is NaN
JsLt(x, y) ==
  LET a == ToNumber(x)  b == ToNumber(y)
  IN a.k # "nan" /\ b.k # "nan" /\ Key(a) < Key(b)
JsLe(x, y) ==
  LET a == ToNumber(x)  b == ToNumber(y)
  IN a.k # "nan" /\ b.k # "nan" /\ Key(a) <= Key(b)
JsGt(x, y) == JsLt(y, x)
JsGe(x, y) == JsLe(y, x)

\* isNaN(x) and isFinite(x) (both convert with ToNumber first)
isNaN(x) == ToNumber(x).k = "nan"
isFinite(x) == ToNumber(x).k = "num"

\* Math.log: NaN below 0, -Infinity at 0; above 0 the result is placed in the
\* band of the thresholds the engine compares it with (8.2, 8.5, 9, 9.5)
MathLog(x) ==
  LET a == ToNumber(x)
  IN CASE a.k = "nan" -> NaN
       [] a.k = "inf" -> (IF a.n > 0 THEN PosInf ELSE NaN)
       [] a.n < 0 -> NaN
       [] a.n = 0 -> NegInf
       [] a.n < 364095 -> Num(800)
       [] a.n < 491477 -> Num(835)
       [] a.n < 810308 -> Num(875)
       [] a.n < 1335973 -> Num(921)
       [] OTHER -> Num(960)

\* Math.round(val * 1000) / 1000 and Math.round(val * 100) / 100: a number
\* of the model has two decimals, so rounding keeps it; NaN and the
\* infinities stay what they are, null becomes 0, other values become NaN
RoundNumber(x) == ToNumber(x)

\* ------------------------------------------------------------------------
\* Rule registries (the targets of the lipid, glycemic and anthropometric
\* panels and one proxy, in registration order)
\* ------------------------------------------------------------------------
Rule(req, formula, conf, cite, cond) ==
  [req |-> req, formula |-> formula, conf |-> conf, cite |-> cite, cond |-> cond]

\* worker.js: one rule per target, no predicate, no citation
INFERENCE_RULES_v1 == <<
  [target |-> "ldl", rules |-> <<
     Rule({"total_cholesterol", "hdl", "triglycerides"}, "friedewald", 90, FALSE, "none")>>],
  [target |-> "vldl", rules |-> <<
     Rule({"triglycerides"}, "tg_div_5", 85, FALSE, "none")>>],
  [target |-> "non_hdl", rules |-> <<
     Rule({"total_cholesterol", "hdl"}, "tc_minus_hdl", 95, FALSE, "none")>>],
  [target |-> "bmi", rules |-> <<
     Rule({"weight_kg", "height_cm"}, "wt_ht", 99, FALSE, "none")>>],
  [target |-> "homa_ir", rules |-> <<
     Rule({"fasting_glucose", "fasting_insulin"}, "homa_ir", 90, FALSE, "none")>>],
  [target |-> "tg_hdl_ratio", rules |-> <<
     Rule({"triglycerides", "hdl"}, "ratio", 95, FALSE, "none")>>],
  [target |-> "tyg_index", rules |-> <<
     Rule({"fasting_glucose", "triglycerides"}, "tyg", 80, FALSE, "none")>>],
  [target |-> "remnant_cholesterol", rules |-> <<
     Rule({"total_cholesterol", "ldl", "hdl"}, "remnant", 95, FALSE, "none")>>],
  [target |-> "castelli_1", rules |-> <<
     Rule({"total_cholesterol", "hdl"}, "tc_hdl", 90, FALSE, "none")>>],
  [target |-> "castelli_2", rules |-> <<
     Rule({"ldl", "hdl"}, "ldl_hdl", 90, FALSE, "none")>> ] >>

\* part_000 (v2.0): predicates are stored under `condition`
INFERENCE_RULES_v2 == <<
  [target |-> "ldl", rules |-> <<
     Rule({"total_cholesterol", "hdl", "triglycerides"}, "friedewald", 92, TRUE, "tg_lt_400"),
     Rule({"total_cholesterol", "hdl", "triglycerides"}, "martin_hopkins", 88, TRUE, "tg_150_400")>>],
  [target |-> "vldl", rules |-> <<
     Rule({"triglycerides"}, "tg_div_5", 85, TRUE, "tg_lt_400")>>],
  [target |-> "non_hdl", rules |-> <<
     Rule({"total_cholesterol", "hdl"}, "tc_minus_hdl", 98, FALSE, "none")>>],
  [target |-> "remnant_cholesterol", rules |-> <<
     Rule({"total_cholesterol", "ldl", "hdl"}, "remnant", 95, TRUE, "none")>>],
  [target |-> "castelli_1", rules |-> <<
     Rule({"total_cholesterol", "hdl"}, "tc_hdl", 95, TRUE, "none")>>],
  [target |-> "castelli_2", rules |-> <<
     Rule({"ldl", "hdl"}, "ldl_hdl", 92, TRUE, "none")>>],
  [target |-> "tg_hdl_ratio", rules |-> <<
     Rule({"triglycerides", "hdl"}, "ratio", 92, TRUE, "none")>>],
  [target |-> "tyg_index", rules |-> <<
     Rule({"fasting_glucose", "triglycerides"}, "tyg", 88, TRUE, "none")>>],
  [target |-> "homa_ir", rules |-> <<
     Rule({"fasting_glucose", "fasting_insulin"}, "homa_ir", 95, TRUE, "none")>>],
  [target |-> "bmi", rules |-> <<
     Rule({"weight_kg", "height_cm"}, "wt_ht", 99, FALSE, "none")>> ] >>

\* part_001 (v3.x): predicates are stored under `cond`
INFERENCE_RULES_v3 == <<
  [target |-> "ldl", rules |-> <<
     Rule({"total_cholesterol", "hdl", "triglycerides"}, "friedewald", 92, TRUE, "tg_lt_400"),
     Rule({"total_cholesterol", "hdl", "triglycerides"}, "martin_hopkins", 88, TRUE, "tg_150_400")>>],
  [target |-> "vldl", rules |-> <<
     Rule({"triglycerides"}, "tg_div_5", 85, TRUE, "tg_lt_400")>>],
  [target |-> "non_hdl", rules |-> <<
     Rule({"total_cholesterol", "hdl"}, "tc_minus_hdl", 98, FALSE, "none")>>],
  [target |-> "remnant_cholesterol", rules |-> <<
     Rule({"total_cholesterol", "ldl", "hdl"}, "remnant", 95, TRUE, "none")>>],
  [target |-> "castelli_1", rules |-> <<
     Rule({"total_cholesterol", "hdl"}, "tc_hdl", 95, TRUE, "none")>>],
  [target |-> "castelli_2", rules |-> <<
     Rule({"ldl", "hdl"}, "ldl_hdl", 92, TRUE, "none")>>],
  [target |-> "tg_hdl_ratio", rules |-> <<
     Rule({"triglycerides", "hdl"}, "ratio", 92, TRUE, "none")>>],
  [target |-> "homa_ir", rules |-> <<
     Rule({"fasting_glucose", "fasting_insulin"}, "homa_ir", 95, TRUE, "none")>>],
  [target |-> "tyg_index", rules |-> <<
     Rule({"fasting_glucose", "triglycerides"}, "tyg", 88, TRUE, "none")>>],
  [target |-> "diabetes_risk_score", rules |-> <<
     Rule({"fasting_glucose", "bmi", "age"}, "diabetes_risk", 80, FALSE, "none")>>],
  [target |-> "prediabetes_indicator", rules |-> <<
     Rule({"fasting_glucose"}, "prediabetes", 95, FALSE, "none")>>],
  [target |-> "bmi", rules |-> <<
     Rule({"weight_kg", "height_cm"}, "wt_ht", 99, FALSE, "none")>>],
  [target |-> "bmi_class", rules |-> <<
     Rule({"bmi"}, "bmi_class", 99, FALSE, "none")>>],
  [target |-> "insulin_sensitivity_proxy", rules |-> <<
     Rule({"homa_ir", "tg_hdl_ratio", "tyg_index"}, "insulin_sens_proxy", 78, FALSE, "none"),
     Rule({"tg_hdl_ratio", "fasting_glucose", "bmi"}, "insulin_sens_simple", 65, FALSE, "none")>> ] >>

INFERENCE_RULES(engine) ==
  CASE engine = "v1" -> INFERENCE_RULES_v1
    [] engine = "v2" -> INFERENCE_RULES_v2
    [] OTHER -> INFERENCE_RULES_v3

CondIgnored(cond, v) == TRUE

\* rule.cond(values) / rule.condition(values); a rule without one is "none"
Cond(cond, v) ==
  CASE cond = "tg_lt_400" -> JsLt(Get(v, "triglycerides"), Num(40000))
    [] cond = "tg_150_400" -> /\ JsGe(Get(v, "triglycerides"), Num(15000))
                              /\ JsLt(Get(v, "triglycerides"), Num(40000))
    [] OTHER -> TRUE

\* ------------------------------------------------------------------------
\* calculate(formula, v).  No case of the switch can throw on JSON data, so
\* the catch branch is never taken; null is returned by friedewald alone.
\* worker.js 22-47 and part_000 209-300 hold the same text for their cases.
\* ------------------------------------------------------------------------
MartinHopkinsFactor(tg) ==
  IF JsLt(tg, Num(10000)) THEN Num(450)
  ELSE IF JsLt(tg, Num(15000)) THEN Num(500)
  ELSE IF JsLt(tg, Num(20000)) THEN Num(550)
  ELSE Num(600)

InsulinSensProxy(v) ==
  LET d1 == IF JsGt(Get(v, "homa_ir"), Num(400)) THEN 40
            ELSE IF JsGt(Get(v, "homa_ir"), Num(250)) THEN 20 ELSE 0
      d2 == IF JsGt(Get(v, "tg_hdl_ratio"), Num(400)) THEN 30
            ELSE IF JsGt(Get(v, "tg_hdl_ratio"), Num(300)) THEN 15 ELSE 0
      d3 == IF JsGt(Get(v, "tyg_index"), Num(900)) THEN 30
            ELSE IF JsGt(Get(v, "tyg_index"), Num(850)) THEN 15 ELSE 0
      score == 100 - d1 - d2 - d3
  IN Obj(IF score > 70 THEN "likely_sensitive"
         ELSE IF score > 40 THEN "possibly_resistant" ELSE "likely_resistant")

InsulinSensSimple(v) ==
  LET d1 == IF JsGt(Get(v, "tg_hdl_ratio"), Num(350)) THEN 35 ELSE 0
      d2 == IF JsGt(Get(v, "fasting_glucose"), Num(10000)) THEN 25 ELSE 0
      d3 == IF JsGt(Get(v, "bmi"), Num(3000)) THEN 25 ELSE 0
      score == 100 - d1 - d2 - d3
  IN Obj(IF score > 60 THEN "likely_sensitive"
         ELSE IF score > 30 THEN "indeterminate" ELSE "possibly_resistant")

calculate(formula, v) ==
  LET tc == Get(v, "total_cholesterol")
      hdl == Get(v, "hdl")
      tg == Get(v, "triglycerides")
      ldl == Get(v, "ldl")
      glu == Get(v, "fasting_glucose")
      ins == Get(v, "fasting_insulin")
      bmi == Get(v, "bmi")
  IN CASE formula = "friedewald" ->
            (IF JsLt(tg, Num(40000))
             THEN JsSub(JsSub(tc, hdl), JsDiv(tg, Num(500))) ELSE Null)
       [] formula = "martin_hopkins" ->
            JsSub(JsSub(tc, hdl), JsDiv(tg, MartinHopkinsFactor(tg)))
       [] formula = "tg_div_5" -> JsDiv(tg, Num(500))
       [] formula = "tc_minus_hdl" -> JsSub(tc, hdl)
       [] formula = "remnant" -> JsSub(JsSub(tc, ldl), hdl)
       [] formula = "tc_hdl" -> JsDiv(tc, hdl)
       [] formula = "ldl_hdl" -> JsDiv(ldl, hdl)
       [] formula = "ratio" -> JsDiv(tg, hdl)
       [] formula = "homa_ir" -> JsDiv(JsMul(glu, ins), Num(40500))
       [] formula = "tyg" -> MathLog(JsDiv(JsMul(tg, glu), Num(200)))
       [] formula = "diabetes_risk" ->
            JsAdd(JsAdd(JsMul(JsSub(glu, Num(7000)), Num(50)),
                        JsMul(JsSub(bmi, Num(2000)), Num(150))),
                  JsMul(JsSub(Get(v, "age"), Num(3000)), Num(30)))
       [] formula = "prediabetes" ->
            (IF JsGe(glu, Num(10000)) /\ JsLt(glu, Num(12600)) THEN Str("prediabetes")
             ELSE IF JsGe(glu, Num(12600)) THEN Str("diabetes_range")
             ELSE Str("normal"))
       [] formula = "wt_ht" ->
            JsDiv(Get(v, "weight_kg"),
                  JsMul(JsDiv(Get(v, "height_cm"), Num(10000)),
                        JsDiv(Get(v, "height_cm"), Num(10000))))
       [] formula = "bmi_class" ->
            (IF JsLt(bmi, Num(1850)) THEN Str("underweight")
             ELSE IF JsLt(bmi, Num(2500)) THEN Str("normal")
             ELSE IF JsLt(bmi, Num(3000)) THEN Str("overweight")
             ELSE IF JsLt(bmi, Num(3500)) THEN Str("obese_1")
             ELSE IF JsLt(bmi, Num(4000)) THEN Str("obese_2")
             ELSE Str("obese_3"))
       [] formula = "insulin_sens_proxy" -> InsulinSensProxy(v)
       [] formula = "insulin_sens_simple" -> InsulinSensSimple(v)
       [] OTHER -> Null

\* interpretRisk(metric, value).risk, "none" when it returns null
interpretRisk(metric, value) ==
  CASE metric = "castelli_1" ->
         (IF JsLe(value, Num(350)) THEN "low"
          ELSE IF JsLe(value, Num(500)) THEN "moderate"
          ELSE IF JsLe(value, PosInf) THEN "high" ELSE "none")
    [] metric = "castelli_2" ->
         (IF JsLe(value, Num(250)) THEN "optimal"
          ELSE IF JsLe(value, Num(350)) THEN "moderate"
          ELSE IF JsLe(value, PosInf) THEN "high" ELSE "none")
    [] metric = "tg_hdl_ratio" ->
         (IF JsLe(value, Num(200)) THEN "optimal"
          ELSE IF JsLe(value, Num(300)) THEN "borderline"
          ELSE IF JsLe(value, PosInf) THEN "elevated" ELSE "none")
    [] metric = "tyg_index" ->
         (IF JsLe(value, Num(850)) THEN "normal"
          ELSE IF JsLe(value, Num(900)) THEN "borderline"
          ELSE IF JsLe(value, PosInf) THEN "elevated" ELSE "none")
    [] metric = "homa_ir" ->
         (IF JsLe(value, Num(100)) THEN "optimal"
          ELSE IF JsLe(value, Num(200)) THEN "normal"
          ELSE IF JsLe(value, Num(290)) THEN "elevated"
          ELSE IF JsLe(value, PosInf) THEN "high" ELSE "none")
    [] OTHER -> "none"

\* the v2.0 tables differ from v3 in the two Castelli indices
interpretRisk_v2(metric, value) ==
  CASE metric = "castelli_1" ->
         (IF JsLe(value, Num(350)) THEN "low"
          ELSE IF JsLe(value, Num(450)) THEN "moderate"
          ELSE IF JsLe(value, Num(550)) THEN "elevated"
          ELSE IF JsLe(value, PosInf) THEN "high" ELSE "none")
    [] metric = "castelli_2" ->
         (IF JsLe(value, Num(250)) THEN "low"
          ELSE IF JsLe(value, Num(300)) THEN "moderate"
          ELSE IF JsLe(value, Num(350)) THEN "elevated"
          ELSE IF JsLe(value, PosInf) THEN "high" ELSE "none")
    [] OTHER -> interpretRisk(metric, value)

\* ------------------------------------------------------------------------
\* State
\* ------------------------------------------------------------------------
VARIABLES
  engine,       \* which generation of the worker serves the request
  inputs,       \* the request body: name -> value
  values,       \* runCascade: the value map
  calculated,   \* runCascade: the DerivationRecords, in order
  i,            \* runCascade: passes of the outer loop completed
  found,        \* runCascade: the flag of the last pass
  constraints,  \* runCascade (v3): result of validateConstraints
  response,     \* the Response of the /analyze handler
  pc,           \* "cascade", "finish", "respond", "done"; "lib" for the standalone modules
  scans,        \* history: one entry per target scanned (not skipped)
  now,          \* the wall clock read by new Date()
  reports,      \* constraint engine module: the reports returned so far
  summaries,    \* constraint engine module: the summaries of those reports
  lastConf,     \* confidence modules: the last confidence computed
  registry,     \* concurrent calls: the CITATIONS objects shared by all invocations
  calls         \* concurrent calls: the state of each invocation in flight

vars == <<engine, inputs, values, calculated, i, found, constraints, response, pc, scans,
          now, reports, summaries, lastConf, registry, calls>>

libvars == <<now, reports, summaries, lastConf, registry, calls>>

\* the citation objects that the records of the v3 worker refer to (part_001)
CITATIONS ==
  [friedewald |-> [pmid |-> "4337382"], martin_hopkins |-> [pmid |-> "24240933"],
   castelli |-> [pmid |-> "191215"], remnant |-> [pmid |-> "23265341"],
   homa_ir |-> [pmid |-> "3899825"], tyg_index |-> [pmid |-> "19067533"],
   tg_hdl_ir |-> [pmid |-> "14623617"]]

NoConf == [fn |-> "none", score |-> Num(0), unit |-> 100, method |-> "none", iteration |-> 0,
           citation |-> FALSE, pass |-> 0, base |-> 0, req |-> {}, provided |-> {}]

Engines == {"v1", "v2", "v3"}

SinglePass(e) == 1

\* the hard iteration cap of each engine
MAX_ITERATIONS(e) ==
  CASE e = "v1" -> 10
    [] e = "v2" -> 15
    [] OTHER -> 20

\* ------------------------------------------------------------------------
\* Request bodies: at most MaxInputs names, each with a value of its domain
\* (plausible, zero, negative, null or a non-numeric string); ldl, bmi and
\* insulin_sensitivity_proxy are names that are rule targets as well
\* ------------------------------------------------------------------------
InputNames ==
  {"total_cholesterol", "hdl", "triglycerides", "fasting_glucose", "fasting_insulin",
   "age", "weight_kg", "height_cm", "ldl", "bmi", "insulin_sensitivity_proxy"}

InputDomain(name) ==
  CASE name = "total_cholesterol" -> {Num(22000), Num(6000), Str("abc")}
    [] name = "hdl" -> {Num(4200), Num(0)}
    [] name = "triglycerides" -> {Num(18500), Num(45000)}
    [] name = "fasting_glucose" -> {Num(10800), Null}
    [] name = "fasting_insulin" -> {Num(1500)}
    [] name = "age" -> {Num(4500)}
    [] name = "weight_kg" -> {Num(8500), Num(-500)}
    [] name = "height_cm" -> {Num(17500), Num(0)}
    [] name = "ldl" -> {Num(13000)}
    [] name = "bmi" -> {Num(3100)}
    [] name = "egfr" -> {Num(9500), Num(8500)}
    [] name = "creatinine" -> {Num(160)}
    [] name = "hba1c" -> {Num(950)}
    [] name = "tsh" -> {Num(1200)}
    [] name = "ft4" -> {Num(200)}
    [] OTHER -> {Null}

EmptyMap == [n \in {} |-> Null]

RECURSIVE MapsOver(_)
MapsOver(S) ==
  IF S = {} THEN {EmptyMap}
  ELSE LET n == CHOOSE x \in S : TRUE
       IN {(n :> v) @@ m : v \in InputDomain(n), m \in MapsOver(S \ {n})}

\* Object.entries(inputs): the keys of a request body, in one fixed order
RECURSIVE KeysOf(_)
KeysOf(S) ==
  IF S = {} THEN <<>>
  ELSE LET n == CHOOSE x \in S : TRUE
       IN <<n>> \o KeysOf(S \ {n})

InputMaps ==
  UNION {MapsOver(S) : S \in {T \in SUBSET InputNames : Cardinality(T) <= MaxInputs}}

\* ------------------------------------------------------------------------
\* buildConfidence (part_001).  A score is base * 0.95 * 0.90 * ... rounded
\* to two decimals; the factors are kept as fractions 19/20, 9/10, 7/10.
\* ------------------------------------------------------------------------
NoConstraintStatus == [error_count |-> 0, warning_count |-> 0]

FRAGILE_FORMULAS == {"ratio", "homa_ir", "quicki", "castelli_1", "castelli_2"}

RoundDiv(num, den) == (2 * num + den) \div (2 * den)

buildConfidence(baseConf, formula, iteration, citation, constraintStatus) ==
  LET grade == IF citation THEN "peer_reviewed"
               ELSE IF iteration = 1 THEN "direct"
               ELSE IF iteration > 2 THEN "cascade" ELSE "derived"
      sensitivity == IF formula \in FRAGILE_FORMULAS THEN "moderate" ELSE "stable"
      consistency == IF constraintStatus.error_count > 0 THEN "invalid"
                     ELSE IF constraintStatus.warning_count > 0 THEN "flagged"
                     ELSE "consistent"
      n1 == IF iteration > 1 THEN 19 ELSE 20
      n2 == IF iteration > 2 THEN 9 ELSE 10
      n3 == IF sensitivity = "moderate" THEN 19 ELSE 20
      n4 == IF consistency = "flagged" THEN 9 ELSE 10
      n5 == IF consistency = "invalid" THEN 7 ELSE 10
  IN [score |-> RoundDiv(baseConf * n1 * n2 * n3 * n4 * n5, 20 * 10 * 20 * 10 * 10),
      evidence_grade |-> grade,
      sensitivity |-> sensitivity,
      cross_panel |-> consistency,
      cascade_depth |-> iteration,
      citation_backed |-> citation]

\* v1 and v2 store the bare rule confidence
PlainConfidence(conf) ==
  [score |-> conf, evidence_grade |-> "none", sensitivity |-> "none",
   cross_panel |-> "none", cascade_depth |-> 0, citation_backed |-> FALSE]

\* ------------------------------------------------------------------------
\* runCascade: one pass of the outer loop
\* ------------------------------------------------------------------------
NeverPresent(v, target) == FALSE

\* values[target] !== undefined
AlreadyPresent(v, target) == target \in DOMAIN v

WriteValueDropped(v, target, val) == v

\* values[target] = val
WriteValue(v, target, val) == (target :> val) @@ v

\* the test on the formula result that lets a rule fire
Derivable(e, val) ==
  CASE e = "v1" -> val.k # "null"
    [] e = "v2" -> val.k # "null" /\ ~isNaN(val) /\ isFinite(val)
    [] OTHER -> /\ val.k # "null"
                /\ val.k # "undef"
                /\ (TypeOf(val) # "number" \/ (~isNaN(val) /\ isFinite(val)))

FiresWithoutInputs(e, rule, v) ==
  Cond(rule.cond, v) /\ Derivable(e, calculate(rule.formula, v))

Fires(e, rule, v) ==
  /\ rule.req \subseteq DOMAIN v
  /\ Cond(rule.cond, v)
  /\ Derivable(e, calculate(rule.formula, v))

ScanFirstOnly(e, rules, j, v) ==
  IF j > Len(rules) THEN 0 ELSE IF Fires(e, rules[j], v) THEN j ELSE 0

\* for (const rule of rules): index of the first rule from j on that fires, 0 if none
RECURSIVE ScanRules(_, _, _, _)
ScanRules(e, rules, j, v) ==
  IF j > Len(rules) THEN 0
  ELSE IF Fires(e, rules[j], v) THEN j
  ELSE ScanRules(e, rules, j + 1, v)

EntryOfLastRule(e, target, rule, val, it) ==
  [name |-> target,
   value |-> IF e = "v3" /\ TypeOf(val) # "number" THEN val ELSE RoundNumber(val),
   method |-> LET t == CHOOSE x \in DOMAIN INFERENCE_RULES(e) :
                             INFERENCE_RULES(e)[x].target = target
               IN INFERENCE_RULES(e)[t].rules[Len(INFERENCE_RULES(e)[t].rules)].formula,
   confidence |-> IF e = "v3"
                  THEN buildConfidence(rule.conf, rule.formula, it, rule.cite, NoConstraintStatus)
                  ELSE PlainConfidence(rule.conf),
   iteration |-> IF e = "v1" THEN 0 ELSE it,
   citation |-> e # "v1" /\ rule.cite,
   interpretation |-> IF e = "v1" THEN "none"
                      ELSE IF e = "v2" THEN interpretRisk_v2(target, val)
                      ELSE interpretRisk(target, val)]

\* the DerivationRecord pushed when `rule` fires for `target` in pass `it`
Entry(e, target, rule, val, it) ==
  [name |-> target,
   value |-> IF e = "v3" /\ TypeOf(val) # "number" THEN val ELSE RoundNumber(val),
   method |-> rule.formula,
   confidence |-> IF e = "v3"
                  THEN buildConfidence(rule.conf, rule.formula, it, rule.cite, NoConstraintStatus)
                  ELSE PlainConfidence(rule.conf),
   iteration |-> IF e = "v1" THEN 0 ELSE it,
   citation |-> e # "v1" /\ rule.cite,
   interpretation |-> IF e = "v1" THEN "none"
                      ELSE IF e = "v2" THEN interpretRisk_v2(target, val)
                      ELSE interpretRisk(target, val)]

\* for (const [target, rules] of Object.entries(INFERENCE_RULES)), from idx on
RECURSIVE RunPass(_, _, _, _)
RunPass(e, st, idx, it) ==
  IF idx > Len(INFERENCE_RULES(e)) THEN st
  ELSE LET t == INFERENCE_RULES(e)[idx]
           j == ScanRules(e, t.rules, 1, st.values)
           scan == [pass |-> it, target |-> t.target, avail |-> DOMAIN st.values, fired |-> j]
       IN IF AlreadyPresent(st.values, t.target) THEN RunPass(e, st, idx + 1, it)
          ELSE IF j = 0
          THEN RunPass(e, [st EXCEPT !.scans = Append(@, scan)], idx + 1, it)
          ELSE LET val == calculate(t.rules[j].formula, st.values)
               IN RunPass(e,
                          [values |-> WriteValue(st.values, t.target, val),
                           calculated |-> Append(st.calculated, Entry(e, t.target, t.rules[j], val, it)),
                           scans |-> Append(st.scans, scan)],
                          idx + 1, it)

FoundFlagInverted(before, after) == Len(after) = Len(before)

\* `found` after a pass that took the records from `before` to `after`
FoundFlag(before, after) == Len(after) > Len(before)

LoopIgnoresFound(e, f, passes) == passes < MAX_ITERATIONS(e)

\* the loop goes on to another pass: no `break`, and i < cap after i++
LoopContinues(e, f, passes) == f /\ passes < MAX_ITERATIONS(e)

Init ==
  /\ engine \in Engines
  /\ inputs \in InputMaps
  /\ values = inputs
  /\ calculated = <<>>
  /\ i = 0
  /\ found = FALSE
  /\ constraints = [status |-> "none", violations |-> <<>>, flags |-> <<>>,
                    error_count |-> 0, warning_count |-> 0]
  /\ response = [status |-> "none", code |-> 0, mode |-> "none",
                 suggestions |-> [present |-> FALSE, list |-> <<>>],
                 states |-> [present |-> FALSE, results |-> <<>>]]
  /\ pc = "cascade"
  /\ scans = <<>>
  /\ now = 0
  /\ reports = <<>>
  /\ summaries = <<>>
  /\ lastConf = NoConf
  /\ registry = CITATIONS
  /\ calls = <<>>

Pass ==
  /\ pc = "cascade"
  /\ LET r == RunPass(engine, [values |-> values, calculated |-> calculated, scans |-> scans], 1, i + 1)
         f == FoundFlag(calculated, r.calculated)
     IN /\ values' = r.values
        /\ calculated' = r.calculated
        /\ scans' = r.scans
        /\ found' = f
        /\ i' = i + 1
        /\ pc' = IF LoopContinues(engine, f, i + 1) THEN "cascade" ELSE "finish"
  /\ UNCHANGED <<engine, inputs, constraints, response>>
  /\ UNCHANGED libvars

\* ------------------------------------------------------------------------
\* validateConstraints (part_001)
\* ------------------------------------------------------------------------
Bounds(lo, hi) == [min |-> Num(lo), max |-> Num(hi)]

PHYSIOLOGICAL_BOUNDS ==
  [age |-> Bounds(0, 12000), bmi |-> Bounds(1000, 8000),
   total_cholesterol |-> Bounds(5000, 50000), hdl |-> Bounds(500, 15000),
   ldl |-> Bounds(1000, 40000), triglycerides |-> Bounds(2000, 500000),
   fasting_glucose |-> Bounds(2000, 60000), fasting_insulin |-> Bounds(50, 30000),
   creatinine |-> Bounds(10, 2000), egfr |-> Bounds(0, 15000),
   hemoglobin |-> Bounds(300, 2200), hematocrit |-> Bounds(1000, 7000),
   tsh |-> Bounds(1, 10000), ft4 |-> Bounds(10, 1000), hba1c |-> Bounds(300, 1800)]

\* JavaScript truthiness
Truthy(x) ==
  CASE x.k = "num" -> x.n # 0
    [] x.k = "str" -> x.s # ""
    [] x.k \in {"inf", "obj"} -> TRUE
    [] OTHER -> FALSE

MathAbs(x) == LET a == ToNumber(x) IN IF a.k = "num" THEN Num(Abs(a.n))
                                      ELSE IF a.k = "inf" THEN PosInf ELSE NaN

\* the flag of directional rule `id` on the merged map, "" when its check returns null
DirectionalCheck(id, v) ==
  CASE id = "ir_consistency" ->
         IF JsGt(Get(v, "homa_ir"), Num(400)) /\ JsLt(Get(v, "tyg_index"), Num(820))
         THEN "inconsistent" ELSE ""
    [] id = "kidney_check" ->
         IF JsGt(Get(v, "egfr"), Num(9000)) /\ JsGt(Get(v, "creatinine"), Num(150))
         THEN "error" ELSE ""
    [] id = "anemia_check" ->
         IF /\ Truthy(Get(v, "hemoglobin"))
            /\ Truthy(Get(v, "hematocrit"))
            /\ JsGt(MathAbs(JsSub(Get(v, "hematocrit"), JsMul(Get(v, "hemoglobin"), Num(300)))), Num(500))
         THEN "review" ELSE ""
    [] id = "thyroid_check" ->
         IF JsGt(Get(v, "tsh"), Num(1000)) /\ JsGt(Get(v, "ft4"), Num(180))
         THEN "unusual" ELSE ""
    [] OTHER ->
         IF JsGt(Get(v, "hba1c"), Num(900)) /\ JsLt(Get(v, "fasting_glucose"), Num(10000))
         THEN "inconsistent" ELSE ""

DIRECTIONAL_RULES ==
  <<"ir_consistency", "kidney_check", "anemia_check", "thyroid_check", "glucose_a1c">>

\* the flags pushed by rules j.. of DIRECTIONAL_RULES, in order
RECURSIVE DirectionalFlags(_, _)
DirectionalFlags(j, v) ==
  IF j > Len(DIRECTIONAL_RULES) THEN <<>>
  ELSE LET f == DirectionalCheck(DIRECTIONAL_RULES[j], v)
       IN (IF f = "" THEN <<>> ELSE <<[rule |-> DIRECTIONAL_RULES[j], flag |-> f]>>)
          \o DirectionalFlags(j + 1, v)

\* calcValues: name -> recorded (rounded) value of every DerivationRecord
CalcValues(recs) ==
  [n \in {recs[k].name : k \in DOMAIN recs} |->
     recs[CHOOSE k \in DOMAIN recs : recs[k].name = n /\ \A m \in DOMAIN recs : recs[m].name = n => m <= k].value]

AboveMaxOnly(x, b) == JsGt(x, b.max)

\* v < b.min || v > b.max
OutOfRange(x, b) == JsLt(x, b.min) \/ JsGt(x, b.max)

\* typeof v === 'number'
IsNumberTyped(x) == TypeOf(x) = "number"

\* the violations pushed for keys j.. of the request body, in order
RECURSIVE BoundViolations(_, _, _)
BoundViolations(inp, keys, j) ==
  IF j > Len(keys) THEN <<>>
  ELSE LET k == keys[j]
       IN (IF /\ k \in DOMAIN PHYSIOLOGICAL_BOUNDS
              /\ IsNumberTyped(inp[k])
              /\ OutOfRange(inp[k], PHYSIOLOGICAL_BOUNDS[k])
           THEN <<[field |-> k, value |-> inp[k], severity |-> "error"]>>
           ELSE <<>>)
          \o BoundViolations(inp, keys, j + 1)

validateConstraints(inp, calc) ==
  LET all == calc @@ inp
      violations == BoundViolations(inp, KeysOf(DOMAIN inp), 1)
      flags == DirectionalFlags(1, all)
      errors == Len(violations) + Cardinality({k \in DOMAIN flags : flags[k].flag = "error"})
      warnings == Cardinality({k \in DOMAIN flags : flags[k].flag # "error"})
  IN [status |-> IF errors > 0 THEN "invalid" ELSE IF warnings > 0 THEN "review" ELSE "valid",
      violations |-> violations, flags |-> flags,
      error_count |-> errors, warning_count |-> warnings]

\* calculated.forEach(c => c.confidence = buildConfidence({baseConf: c.confidence.score, ...}))
UpdateConfidence(recs, cons) ==
  [k \in DOMAIN recs |->
     [recs[k] EXCEPT !.confidence =
        buildConfidence(recs[k].confidence.score, recs[k].method, recs[k].iteration,
                        recs[k].citation, cons)]]

\* the part of runCascade after the loop: v3 validates and rescores; v1 and v2 just return
Finish ==
  /\ pc = "finish"
  /\ IF engine = "v3"
     THEN LET cons == validateConstraints(inputs, CalcValues(calculated))
          IN /\ constraints' = cons
             /\ calculated' = UpdateConfidence(calculated, cons)
     ELSE UNCHANGED <<constraints, calculated>>
  /\ pc' = "respond"
  /\ UNCHANGED <<engine, inputs, values, i, found, response, scans>>
  /\ UNCHANGED libvars

\* ------------------------------------------------------------------------
\* The /analyze handler.  A TypeError raised while the response is built is
\* the value Thrown; the handler's catch turns it into the 400 error body.
\* ------------------------------------------------------------------------
Thrown == [k |-> "thrown", n |-> 0, s |-> ""]

\* x.state: property access throws on null and undefined
MemberState(x) ==
  IF x.k \in {"null", "undef"} THEN Thrown
  ELSE IF x.k = "obj" THEN Str(x.s) ELSE Undefined

StateOfUnguarded(x) ==
  IF x.k \in {"null", "undef"} THEN Thrown
  ELSE IF x.k = "obj" THEN Str(x.s) ELSE Undefined

\* x?.state: optional chaining yields undefined on null and undefined
OptionalState(x) ==
  IF x.k \in {"null", "undef"} THEN Undefined
  ELSE IF x.k = "obj" THEN Str(x.s) ELSE Undefined

RiskHit(d) == d.interpretation \in {"high", "elevated"}

\* typeof d.value === 'object' (true of null as well)
IsObjectTyped(x) == TypeOf(x) = "object"

SIGNIFICANT_STATES == {"elevated", "likely_resistant", "deficient", "chronic_pattern"}

\* getExecutiveSummary: the filter over the records, then the action items
getExecutiveSummary(derived, v, cons) ==
  LET tested == {k \in DOMAIN derived : ~RiskHit(derived[k]) /\ IsObjectTyped(derived[k].value)}
      significant == {k \in DOMAIN derived :
                        \/ RiskHit(derived[k])
                        \/ /\ k \in tested
                           /\ MemberState(derived[k].value).s \in SIGNIFICANT_STATES}
      homaHigh == JsGt(Get(v, "homa_ir"), Num(250))
      proxy == OptionalState(Get(v, "insulin_sensitivity_proxy"))
      threw == \/ \E k \in tested : MemberState(derived[k].value) = Thrown
               \/ ~homaHigh /\ proxy = Thrown
  IN [threw |-> threw,
      significant |-> IF Cardinality(significant) > 3 THEN 3 ELSE Cardinality(significant),
      insulin_action |-> homaHigh \/ proxy = Str("likely_resistant"),
      data_warning |-> cons.error_count > 0]

Modes == {"standard", "a2", "clinician", "consumer"}

CONSUMER_FRIENDLY == {"bmi", "bmi_class", "health_score", "insulin_sensitivity_proxy",
                      "inflammatory_burden_proxy", "cv_resilience_proxy"}

\* an exception reaches the catch of the /analyze handler
HandlerThrows(mode, derived, v, cons) ==
  CASE mode = "standard" -> FALSE
    [] mode = "a2" -> getExecutiveSummary(derived, v, cons).threw
    [] mode = "clinician" ->
         \/ getExecutiveSummary(derived, v, cons).threw
         \/ \E k \in DOMAIN derived :
              /\ ~RiskHit(derived[k])
              /\ IsObjectTyped(derived[k].value)
              /\ MemberState(derived[k].value) = Thrown
    [] OTHER ->
         \/ getExecutiveSummary(derived, v, cons).threw
         \/ \E k \in DOMAIN derived :
              /\ derived[k].name \in CONSUMER_FRIENDLY
              /\ IsObjectTyped(derived[k].value)
              /\ MemberState(derived[k].value) = Thrown

\* ------------------------------------------------------------------------
\* getSuggestions.  It scans the whole rule registry, of which the cascade
\* above carries only the targets derivable from the request bodies; of each
\* rule it reads the target, the required inputs and the base confidence.
\* ------------------------------------------------------------------------
\* worker.js: INFERENCE_RULES, every rule in registry order
REGISTRY_v1 == <<
  [target |-> "ldl", req |-> {"total_cholesterol", "hdl", "triglycerides"}, conf |-> 90],
  [target |-> "vldl", req |-> {"triglycerides"}, conf |-> 85],
  [target |-> "non_hdl", req |-> {"total_cholesterol", "hdl"}, conf |-> 95],
  [target |-> "egfr", req |-> {"creatinine", "age"}, conf |-> 85],
  [target |-> "bmi", req |-> {"weight_kg", "height_cm"}, conf |-> 99],
  [target |-> "homa_ir", req |-> {"fasting_glucose", "fasting_insulin"}, conf |-> 90],
  [target |-> "tg_hdl_ratio", req |-> {"triglycerides", "hdl"}, conf |-> 95],
  [target |-> "tyg_index", req |-> {"fasting_glucose", "triglycerides"}, conf |-> 80],
  [target |-> "fib4", req |-> {"age", "ast", "alt", "platelets"}, conf |-> 85],
  [target |-> "remnant_cholesterol", req |-> {"total_cholesterol", "ldl", "hdl"}, conf |-> 95],
  [target |-> "castelli_1", req |-> {"total_cholesterol", "hdl"}, conf |-> 90],
  [target |-> "castelli_2", req |-> {"ldl", "hdl"}, conf |-> 90],
  [target |-> "atherogenic_index", req |-> {"triglycerides", "hdl"}, conf |-> 85],
  [target |-> "hba1c_estimated", req |-> {"mean_glucose"}, conf |-> 85],
  [target |-> "mean_glucose_estimated", req |-> {"hba1c"}, conf |-> 88] >>

\* part_000 (v2.0): INFERENCE_RULES, every rule in registry order
REGISTRY_v2 == <<
  [target |-> "ldl", req |-> {"total_cholesterol", "hdl", "triglycerides"}, conf |-> 92],
  [target |-> "ldl", req |-> {"total_cholesterol", "hdl", "triglycerides"}, conf |-> 88],
  [target |-> "vldl", req |-> {"triglycerides"}, conf |-> 85],
  [target |-> "non_hdl", req |-> {"total_cholesterol", "hdl"}, conf |-> 98],
  [target |-> "remnant_cholesterol", req |-> {"total_cholesterol", "ldl", "hdl"}, conf |-> 95],
  [target |-> "castelli_1", req |-> {"total_cholesterol", "hdl"}, conf |-> 95],
  [target |-> "castelli_2", req |-> {"ldl", "hdl"}, conf |-> 92],
  [target |-> "atherogenic_index", req |-> {"triglycerides", "hdl"}, conf |-> 90],
  [target |-> "tg_hdl_ratio", req |-> {"triglycerides", "hdl"}, conf |-> 92],
  [target |-> "tyg_index", req |-> {"fasting_glucose", "triglycerides"}, conf |-> 88],
  [target |-> "homa_ir", req |-> {"fasting_glucose", "fasting_insulin"}, conf |-> 95],
  [target |-> "hba1c_estimated", req |-> {"mean_glucose"}, conf |-> 85],
  [target |-> "mean_glucose_estimated", req |-> {"hba1c"}, conf |-> 88],
  [target |-> "egfr", req |-> {"creatinine", "age"}, conf |-> 90],
  [target |-> "bun_creatinine_ratio", req |-> {"bun", "creatinine"}, conf |-> 98],
  [target |-> "fib4", req |-> {"age", "ast", "alt", "platelets"}, conf |-> 88],
  [target |-> "ast_alt_ratio", req |-> {"ast", "alt"}, conf |-> 95],
  [target |-> "nafld_fib_score", req |-> {"age", "bmi", "ast", "alt", "platelets", "albumin"}, conf |-> 85],
  [target |-> "nlr", req |-> {"neutrophils", "lymphocytes"}, conf |-> 95],
  [target |-> "plr", req |-> {"platelets", "lymphocytes"}, conf |-> 90],
  [target |-> "sii", req |-> {"platelets", "neutrophils", "lymphocytes"}, conf |-> 88],
  [target |-> "bmi", req |-> {"weight_kg", "height_cm"}, conf |-> 99],
  [target |-> "waist_height_ratio", req |-> {"waist_cm", "height_cm"}, conf |-> 98],
  [target |-> "map", req |-> {"sbp", "dbp"}, conf |-> 98],
  [target |-> "pulse_pressure", req |-> {"sbp", "dbp"}, conf |-> 99],
  [target |-> "mchc", req |-> {"hemoglobin", "hematocrit"}, conf |-> 98] >>

\* part_001 (v3.x): INFERENCE_RULES, every rule in registry order
REGISTRY_v3 == <<
  [target |-> "ldl", req |-> {"total_cholesterol", "hdl", "triglycerides"}, conf |-> 92],
  [target |-> "ldl", req |-> {"total_cholesterol", "hdl", "triglycerides"}, conf |-> 88],
  [target |-> "vldl", req |-> {"triglycerides"}, conf |-> 85],
  [target |-> "non_hdl", req |-> {"total_cholesterol", "hdl"}, conf |-> 98],
  [target |-> "remnant_cholesterol", req |-> {"total_cholesterol", "ldl", "hdl"}, conf |-> 95],
  [target |-> "castelli_1", req |-> {"total_cholesterol", "hdl"}, conf |-> 95],
  [target |-> "castelli_2", req |-> {"ldl", "hdl"}, conf |-> 92],
  [target |-> "atherogenic_index", req |-> {"triglycerides", "hdl"}, conf |-> 90],
  [target |-> "tg_hdl_ratio", req |-> {"triglycerides", "hdl"}, conf |-> 92],
  [target |-> "ldl_particle_risk", req |-> {"triglycerides", "hdl", "ldl"}, conf |-> 80],
  [target |-> "apob_estimated", req |-> {"ldl", "triglycerides"}, conf |-> 75],
  [target |-> "lp_ir_score", req |-> {"triglycerides", "hdl", "vldl"}, conf |-> 78],
  [target |-> "homa_ir", req |-> {"fasting_glucose", "fasting_insulin"}, conf |-> 95],
  [target |-> "homa_beta", req |-> {"fasting_glucose", "fasting_insulin"}, conf |-> 90],
  [target |-> "quicki", req |-> {"fasting_glucose", "fasting_insulin"}, conf |-> 92],
  [target |-> "tyg_index", req |-> {"fasting_glucose", "triglycerides"}, conf |-> 88],
  [target |-> "tyg_bmi", req |-> {"fasting_glucose", "triglycerides", "bmi"}, conf |-> 85],
  [target |-> "tyg_wc", req |-> {"fasting_glucose", "triglycerides", "waist_cm"}, conf |-> 85],
  [target |-> "mets_ir", req |-> {"fasting_glucose", "triglycerides", "hdl", "bmi"}, conf |-> 82],
  [target |-> "hba1c_estimated", req |-> {"mean_glucose"}, conf |-> 85],
  [target |-> "mean_glucose_estimated", req |-> {"hba1c"}, conf |-> 88],
  [target |-> "diabetes_risk_score", req |-> {"fasting_glucose", "bmi", "age"}, conf |-> 80],
  [target |-> "prediabetes_indicator", req |-> {"fasting_glucose"}, conf |-> 95],
  [target |-> "postprandial_estimate", req |-> {"fasting_glucose", "hba1c"}, conf |-> 75],
  [target |-> "glucose_variability_proxy", req |-> {"fasting_glucose", "hba1c"}, conf |-> 70],
  [target |-> "egfr", req |-> {"creatinine", "age"}, conf |-> 90],
  [target |-> "egfr_cystatin", req |-> {"cystatin_c", "age"}, conf |-> 92],
  [target |-> "creatinine_clearance", req |-> {"creatinine", "age", "weight_kg"}, conf |-> 85],
  [target |-> "bun_creatinine_ratio", req |-> {"bun", "creatinine"}, conf |-> 98],
  [target |-> "ckd_stage", req |-> {"egfr"}, conf |-> 95],
  [target |-> "uacr_risk", req |-> {"urine_albumin", "urine_creatinine"}, conf |-> 95],
  [target |-> "kidney_risk_score", req |-> {"egfr", "age", "albumin"}, conf |-> 80],
  [target |-> "fib4", req |-> {"age", "ast", "alt", "platelets"}, conf |-> 88],
  [target |-> "ast_alt_ratio", req |-> {"ast", "alt"}, conf |-> 95],
  [target |-> "nafld_fib_score", req |-> {"age", "bmi", "ast", "alt", "platelets", "albumin"}, conf |-> 85],
  [target |-> "apri", req |-> {"ast", "platelets"}, conf |-> 85],
  [target |-> "meld_score", req |-> {"bilirubin", "creatinine", "inr"}, conf |-> 90],
  [target |-> "meld_na", req |-> {"bilirubin", "creatinine", "inr", "sodium"}, conf |-> 92],
  [target |-> "baat_score", req |-> {"age", "bmi", "ast", "alt", "triglycerides"}, conf |-> 78],
  [target |-> "fatty_liver_index", req |-> {"bmi", "waist_cm", "triglycerides", "ggt"}, conf |-> 82],
  [target |-> "alcoholic_liver_risk", req |-> {"ast", "alt", "ggt", "mcv"}, conf |-> 75],
  [target |-> "nlr", req |-> {"neutrophils", "lymphocytes"}, conf |-> 95],
  [target |-> "plr", req |-> {"platelets", "lymphocytes"}, conf |-> 90],
  [target |-> "sii", req |-> {"platelets", "neutrophils", "lymphocytes"}, conf |-> 88],
  [target |-> "mlr", req |-> {"monocytes", "lymphocytes"}, conf |-> 85],
  [target |-> "nlr_plr_combined", req |-> {"nlr", "plr"}, conf |-> 82],
  [target |-> "aisi", req |-> {"neutrophils", "monocytes", "platelets", "lymphocytes"}, conf |-> 85],
  [target |-> "chronic_inflammation_index", req |-> {"hscrp", "wbc"}, conf |-> 80],
  [target |-> "inflammation_risk_class", req |-> {"hscrp"}, conf |-> 90],
  [target |-> "map", req |-> {"sbp", "dbp"}, conf |-> 98],
  [target |-> "pulse_pressure", req |-> {"sbp", "dbp"}, conf |-> 99],
  [target |-> "ppi", req |-> {"pulse_pressure", "sbp"}, conf |-> 90],
  [target |-> "hypertension_stage", req |-> {"sbp", "dbp"}, conf |-> 95],
  [target |-> "arterial_stiffness_proxy", req |-> {"pulse_pressure", "age"}, conf |-> 75],
  [target |-> "cv_risk_bp", req |-> {"sbp", "age"}, conf |-> 80],
  [target |-> "tsh_ft4_ratio", req |-> {"tsh", "ft4"}, conf |-> 85],
  [target |-> "tshi", req |-> {"tsh", "ft4"}, conf |-> 82],
  [target |-> "t3_t4_ratio", req |-> {"t3", "t4"}, conf |-> 85],
  [target |-> "ft3_ft4_ratio", req |-> {"ft3", "ft4"}, conf |-> 88],
  [target |-> "thyroid_resistance_index", req |-> {"tsh", "ft4", "ft3"}, conf |-> 75],
  [target |-> "mchc", req |-> {"hemoglobin", "hematocrit"}, conf |-> 98],
  [target |-> "mcv_calculated", req |-> {"hematocrit", "rbc"}, conf |-> 98],
  [target |-> "mch_calculated", req |-> {"hemoglobin", "rbc"}, conf |-> 98],
  [target |-> "mentzer_index", req |-> {"mcv", "rbc"}, conf |-> 85],
  [target |-> "rdw_mcv_ratio", req |-> {"rdw", "mcv"}, conf |-> 80],
  [target |-> "anemia_type_indicator", req |-> {"mcv", "mchc", "rdw"}, conf |-> 75],
  [target |-> "iron_deficiency_probability", req |-> {"ferritin", "tibc", "serum_iron"}, conf |-> 85],
  [target |-> "tsat", req |-> {"serum_iron", "tibc"}, conf |-> 95],
  [target |-> "reticulocyte_index", req |-> {"reticulocytes", "hematocrit"}, conf |-> 88],
  [target |-> "bmi", req |-> {"weight_kg", "height_cm"}, conf |-> 99],
  [target |-> "bmi_class", req |-> {"bmi"}, conf |-> 99],
  [target |-> "waist_height_ratio", req |-> {"waist_cm", "height_cm"}, conf |-> 98],
  [target |-> "waist_hip_ratio", req |-> {"waist_cm", "hip_cm"}, conf |-> 98],
  [target |-> "bsa", req |-> {"weight_kg", "height_cm"}, conf |-> 95],
  [target |-> "ibw", req |-> {"height_cm"}, conf |-> 90],
  [target |-> "absi", req |-> {"waist_cm", "bmi", "height_cm"}, conf |-> 85],
  [target |-> "bri", req |-> {"waist_cm", "height_cm"}, conf |-> 88],
  [target |-> "visceral_fat_proxy", req |-> {"waist_cm", "bmi", "age"}, conf |-> 75],
  [target |-> "anion_gap", req |-> {"sodium", "chloride", "bicarbonate"}, conf |-> 98],
  [target |-> "corrected_anion_gap", req |-> {"anion_gap", "albumin"}, conf |-> 95],
  [target |-> "serum_osmolality", req |-> {"sodium", "glucose", "bun"}, conf |-> 92],
  [target |-> "osmolar_gap", req |-> {"serum_osmolality", "sodium", "glucose", "bun"}, conf |-> 88],
  [target |-> "corrected_sodium", req |-> {"sodium", "glucose"}, conf |-> 95],
  [target |-> "corrected_calcium", req |-> {"calcium", "albumin"}, conf |-> 95],
  [target |-> "free_water_deficit", req |-> {"sodium", "weight_kg"}, conf |-> 85],
  [target |-> "vitamin_d_status", req |-> {"vitamin_d"}, conf |-> 95],
  [target |-> "b12_deficiency_risk", req |-> {"b12", "mma"}, conf |-> 88],
  [target |-> "folate_status", req |-> {"folate", "rbc_folate"}, conf |-> 85],
  [target |-> "homocysteine_risk", req |-> {"homocysteine"}, conf |-> 90],
  [target |-> "nutritional_risk_index", req |-> {"albumin", "weight_kg", "ideal_body_weight"}, conf |-> 80],
  [target |-> "metabolic_syndrome_atp3", req |-> {"waist_cm", "triglycerides", "hdl", "sbp", "fasting_glucose"}, conf |-> 95],
  [target |-> "metabolic_syndrome_idf", req |-> {"waist_cm", "triglycerides", "hdl", "sbp", "fasting_glucose"}, conf |-> 95],
  [target |-> "cardiometabolic_risk", req |-> {"ldl", "hdl", "triglycerides", "sbp", "fasting_glucose", "bmi"}, conf |-> 85],
  [target |-> "overall_health_score", req |-> {"bmi", "sbp", "fasting_glucose", "hdl", "triglycerides"}, conf |-> 75],
  [target |-> "insulin_sensitivity_proxy", req |-> {"homa_ir", "tg_hdl_ratio", "tyg_index"}, conf |-> 78],
  [target |-> "insulin_sensitivity_proxy", req |-> {"tg_hdl_ratio", "fasting_glucose", "bmi"}, conf |-> 65],
  [target |-> "metabolic_stress_state", req |-> {"tyg_index", "hscrp", "bmi"}, conf |-> 72],
  [target |-> "inflammatory_burden_proxy", req |-> {"hscrp", "nlr", "ferritin"}, conf |-> 75],
  [target |-> "inflammatory_burden_proxy", req |-> {"hscrp", "nlr"}, conf |-> 68],
  [target |-> "chronic_inflammation_state", req |-> {"hscrp", "ferritin", "albumin"}, conf |-> 70],
  [target |-> "cv_resilience_proxy", req |-> {"hdl", "triglycerides", "sbp", "pulse_pressure"}, conf |-> 72],
  [target |-> "arterial_health_proxy", req |-> {"pulse_pressure", "age", "sbp"}, conf |-> 70],
  [target |-> "hepatic_stress_proxy", req |-> {"alt", "ast", "ggt", "triglycerides"}, conf |-> 73],
  [target |-> "hepatic_stress_proxy", req |-> {"fib4", "nafld_fibrosis"}, conf |-> 75],
  [target |-> "fatty_liver_likelihood", req |-> {"alt", "triglycerides", "bmi", "fasting_glucose"}, conf |-> 70],
  [target |-> "kidney_stress_proxy", req |-> {"egfr", "albumin", "creatinine"}, conf |-> 75],
  [target |-> "thyroid_function_proxy", req |-> {"tsh", "ft4"}, conf |-> 80],
  [target |-> "thyroid_stress_pattern", req |-> {"tsh", "ft4", "hscrp"}, conf |-> 65],
  [target |-> "micronutrient_status_proxy", req |-> {"ferritin", "vitamin_d", "b12"}, conf |-> 72],
  [target |-> "vitamin_d_sufficiency_likelihood", req |-> {"vitamin_d"}, conf |-> 85],
  [target |-> "anemia_type_proxy", req |-> {"hemoglobin", "mcv", "ferritin", "tsat"}, conf |-> 75],
  [target |-> "iron_status_proxy", req |-> {"ferritin", "tsat", "hemoglobin"}, conf |-> 78],
  [target |-> "mets_likelihood", req |-> {"metabolic_syndrome_atp3", "metabolic_syndrome_idf"}, conf |-> 88] >>

REGISTRY(e) ==
  CASE e = "v1" -> REGISTRY_v1
    [] e = "v2" -> REGISTRY_v2
    [] OTHER -> REGISTRY_v3

\* values[r] === undefined
IsUndefined(v, r) == Get(v, r).k = "undef"

\* rule.req.filter(r => values[r] === undefined)
MissingInputs(rule, v) == {r \in rule.req : IsUndefined(v, r)}

AnyMissing(missing) == Cardinality(missing) >= 1

\* missing.length === 1
SingleMissing(missing) == Cardinality(missing) = 1

\* the rule is one for which the two loops push an entry
Qualifies(rule, v) ==
  IsUndefined(v, rule.target) /\ SingleMissing(MissingInputs(rule, v))

\* the entries pushed by the two loops, in registry order
Candidates(reg, v) ==
  LET Hit(rule) == Qualifies(rule, v)
      hits == SelectSeq(reg, Hit)
  IN [k \in 1..Len(hits) |->
        [target |-> hits[k].target,
         missing |-> CHOOSE r \in MissingInputs(hits[k], v) : TRUE,
         confidence |-> hits[k].conf]]

\* sugg.sort((a, b) => b.confidence - a.confidence): stable and descending,
\* entry k comes behind the entries of higher confidence and the earlier
\* entries of the same confidence
SortByConfidence(sugg) ==
  LET pos == [k \in DOMAIN sugg |->
                1 + Cardinality({x \in DOMAIN sugg :
                       \/ sugg[x].confidence > sugg[k].confidence
                       \/ sugg[x].confidence = sugg[k].confidence /\ x < k})]
  IN [p \in DOMAIN sugg |-> sugg[CHOOSE k \in DOMAIN sugg : pos[k] = p]]

\* .slice(0, n)
Slice(seq, n) == SubSeq(seq, 1, IF Len(seq) < n THEN Len(seq) ELSE n)

LimitThree(e) == 3

SUGGESTION_LIMIT(e) ==
  CASE e = "v1" -> 5
    [] e = "v2" -> 8
    [] OTHER -> 10

getSuggestions(e, v) ==
  LET sugg == Candidates(REGISTRY(e), v)
  IN Slice(SortByConfidence(sugg), SUGGESTION_LIMIT(e))

\* the suggestions member of a successful response: absent in the a2 and
\* consumer reports, cut to five for the clinician
ResponseSuggestions(e, mode, v) ==
  CASE e = "v3" /\ mode \in {"a2", "consumer"} -> [present |-> FALSE, list |-> <<>>]
    [] e = "v3" /\ mode = "clinician" -> [present |-> TRUE, list |-> Slice(getSuggestions(e, v), 5)]
    [] OTHER -> [present |-> TRUE, list |-> getSuggestions(e, v)]

NoSuggestions == [present |-> FALSE, list |-> <<>>]

\* ------------------------------------------------------------------------
\* evaluateStates (part_001): the state catalog and the scoring of each state
\* ------------------------------------------------------------------------
PHYSIOLOGICAL_STATES == <<
  [id |-> "metabolic_health", required |-> <<"homa_ir", "tg_hdl_ratio">>,
   supporting |-> <<"fasting_glucose", "bmi", "hba1c">>],
  [id |-> "inflammatory_status", required |-> <<"hscrp">>,
   supporting |-> <<"nlr", "ferritin", "albumin">>],
  [id |-> "cardiovascular_status", required |-> <<"ldl", "hdl">>,
   supporting |-> <<"sbp", "triglycerides", "hscrp">>],
  [id |-> "liver_status", required |-> <<"alt">>,
   supporting |-> <<"ast", "fib4", "ggt">>],
  [id |-> "kidney_status", required |-> <<"egfr">>,
   supporting |-> <<"creatinine", "albumin">>] >>

\* v[name] > n and v[name] < n, n in hundredths
Over(v, name, n) == JsGt(Get(v, name), Num(n))
Under(v, name, n) == JsLt(Get(v, name), Num(n))

\* the score that def.evaluate(v) starts at 100 and lowers
StateScore(id, v) ==
  CASE id = "metabolic_health" ->
         100 - (IF Over(v, "homa_ir", 300) THEN 30 ELSE IF Over(v, "homa_ir", 200) THEN 15 ELSE 0)
             - (IF Over(v, "tg_hdl_ratio", 400) THEN 25
                ELSE IF Over(v, "tg_hdl_ratio", 300) THEN 12 ELSE 0)
             - (IF Over(v, "fasting_glucose", 12600) THEN 25
                ELSE IF Over(v, "fasting_glucose", 10000) THEN 10 ELSE 0)
             - (IF Over(v, "bmi", 3000) THEN 8 ELSE 0)
             - (IF Over(v, "hba1c", 650) THEN 20 ELSE 0)
    [] id = "inflammatory_status" ->
         100 - (IF Over(v, "hscrp", 1000) THEN 50 ELSE IF Over(v, "hscrp", 300) THEN 30
                ELSE IF Over(v, "hscrp", 100) THEN 15 ELSE 0)
             - (IF Over(v, "nlr", 600) THEN 25 ELSE IF Over(v, "nlr", 300) THEN 10 ELSE 0)
             - (IF Over(v, "ferritin", 50000) THEN 20 ELSE 0)
             - (IF Under(v, "albumin", 350) THEN 15 ELSE 0)
    [] id = "cardiovascular_status" ->
         100 - (IF Over(v, "ldl", 19000) THEN 35 ELSE IF Over(v, "ldl", 16000) THEN 25
                ELSE IF Over(v, "ldl", 13000) THEN 15 ELSE 0)
             - (IF Under(v, "hdl", 4000) THEN 25 ELSE 0)
             - (IF Over(v, "sbp", 14000) THEN 20 ELSE IF Over(v, "sbp", 13000) THEN 10 ELSE 0)
             - (IF Over(v, "triglycerides", 20000) THEN 15 ELSE 0)
             - (IF Over(v, "hscrp", 300) THEN 15 ELSE 0)
    [] id = "liver_status" ->
         100 - (IF Over(v, "alt", 8000) THEN 35 ELSE IF Over(v, "alt", 4000) THEN 20 ELSE 0)
             - (IF Over(v, "ast", 8000) THEN 25 ELSE IF Over(v, "ast", 4000) THEN 12 ELSE 0)
             - (IF Over(v, "fib4", 267) THEN 30 ELSE IF Over(v, "fib4", 130) THEN 15 ELSE 0)
    [] OTHER ->
         100 - (IF Under(v, "egfr", 3000) THEN 60 ELSE IF Under(v, "egfr", 4500) THEN 40
                ELSE IF Under(v, "egfr", 6000) THEN 25
                ELSE IF Under(v, "egfr", 9000) THEN 10 ELSE 0)
             - (IF Over(v, "creatinine", 150) THEN 15 ELSE 0)

\* the state that def.evaluate names for a score
StateOfScore(id, score) ==
  CASE id = "metabolic_health" ->
         IF score > 80 THEN "optimal" ELSE IF score > 60 THEN "stable"
         ELSE IF score > 40 THEN "stressed" ELSE "dysregulated"
    [] id = "inflammatory_status" ->
         IF score > 85 THEN "quiescent" ELSE IF score > 65 THEN "low_grade"
         ELSE IF score > 45 THEN "moderate" ELSE "elevated"
    [] id = "cardiovascular_status" ->
         IF score > 80 THEN "optimal" ELSE IF score > 60 THEN "favorable"
         ELSE IF score > 40 THEN "moderate_risk" ELSE "elevated_risk"
    [] id = "liver_status" ->
         IF score > 80 THEN "healthy" ELSE IF score > 60 THEN "mild_stress"
         ELSE IF score > 40 THEN "moderate_concern" ELSE "needs_evaluation"
    [] OTHER ->
         IF score > 85 THEN "normal" ELSE IF score > 60 THEN "mildly_reduced"
         ELSE IF score > 35 THEN "moderately_reduced" ELSE "significantly_reduced"

\* evaluateStates: Math.min(0.95, 0.7 + supporting / def.supporting.length * 0.2), in 1/10000
StateConfidence(supporting, len) ==
  LET x == 7000 + (supporting * 2000) \div len
  IN Num(IF x > 9500 THEN 9500 ELSE x)

HasSomeRequired(def, v) ==
  \E k \in DOMAIN def.required : ~IsUndefined(v, def.required[k])

\* def.required.every(s => values[s] !== undefined)
HasRequired(def, v) ==
  \A k \in DOMAIN def.required : ~IsUndefined(v, def.required[k])

\* the result of one state of the catalog
StateResult(def, v) ==
  IF ~HasRequired(def, v)
  THEN LET Absent(name) == IsUndefined(v, name)
       IN [evaluated |-> FALSE, missing |-> SelectSeq(def.required, Absent),
           state |-> "", score |-> 0, confidence |-> Num(0)]
  ELSE LET Present(name) == ~IsUndefined(v, name)
           supporting == Len(SelectSeq(def.supporting, Present))
           score == StateScore(def.id, v)
       IN [evaluated |-> TRUE, missing |-> <<>>,
           state |-> StateOfScore(def.id, score),
           score |-> IF score < 0 THEN 0 ELSE score,
           confidence |-> StateConfidence(supporting, Len(def.supporting))]

evaluateStates(v) ==
  [k \in DOMAIN PHYSIOLOGICAL_STATES |-> StateResult(PHYSIOLOGICAL_STATES[k], v)]

NoStates == [present |-> FALSE, results |-> <<>>]

\* the physiological_states member of a successful response: the a2 and the
\* standard response of v3 carry it
ResponseStates(e, mode, v) ==
  IF e = "v3" /\ mode \in {"a2", "standard"}
  THEN [present |-> TRUE, results |-> evaluateStates(v)]
  ELSE NoStates

\* v1 and v2 have no modes: runCascade's result plus suggestions
Respond ==
  /\ pc = "respond"
  /\ \E mode \in (IF engine = "v3" THEN Modes ELSE {"standard"}) :
       response' = IF engine = "v3" /\ HandlerThrows(mode, calculated, values, constraints)
                   THEN [status |-> "error", code |-> 400, mode |-> mode,
                         suggestions |-> NoSuggestions, states |-> NoStates]
                   ELSE [status |-> "success", code |-> 200, mode |-> mode,
                         suggestions |-> ResponseSuggestions(engine, mode, values),
                         states |-> ResponseStates(engine, mode, values)]
  /\ pc' = "done"
  /\ UNCHANGED <<engine, inputs, values, calculated, i, found, constraints, scans>>
  /\ UNCHANGED libvars

Next == Pass \/ Finish \/ Respond

Spec == Init /\ [][Next]_vars

\* ------------------------------------------------------------------------
\* Properties of the cascade
\* ------------------------------------------------------------------------
\* a formula result that is finite and defined
FiniteDefined(val) == val.k \notin {"null", "undef", "nan", "inf"}

\* the three conditions of the rule contract on a value map
Satisfiable(rule, v) ==
  /\ rule.req \subseteq DOMAIN v
  /\ Cond(rule.cond, v)
  /\ FiniteDefined(calculate(rule.formula, v))

TargetRules(e, t) ==
  INFERENCE_RULES(e)[CHOOSE k \in DOMAIN INFERENCE_RULES(e) : INFERENCE_RULES(e)[k].target = t].rules

Targets(e) == {INFERENCE_RULES(e)[k].target : k \in DOMAIN INFERENCE_RULES(e)}

\* the value map as it was when the names in `avail` were present
ValuesAt(avail) == [n \in avail |-> values[n]]

FiredScans == {k \in DOMAIN scans : scans[k].fired > 0}

\* C1: a rule fires only if all its required inputs are present, its predicate
\* holds and its formula returned a finite, defined value; a null, undefined,
\* NaN or infinite result never produces a value-map entry or a record.
C1_FiresOnlyWhenSatisfied ==
  /\ \A k \in FiredScans :
       Satisfiable(TargetRules(engine, scans[k].target)[scans[k].fired], ValuesAt(scans[k].avail))
  /\ \A k \in DOMAIN calculated :
       /\ calculated[k].name \in DOMAIN values
       /\ FiniteDefined(values[calculated[k].name])
       /\ FiniteDefined(calculated[k].value)

\* C2: each name of the value map is written at most once in a run: a value
\* already present (direct input or derived earlier) is never overwritten,
\* and no target name appears in two DerivationRecords.
C2_WrittenAtMostOnce ==
  /\ [](/\ \A a, b \in DOMAIN calculated : calculated[a].name = calculated[b].name => a = b
        /\ \A a, b \in FiredScans : scans[a].target = scans[b].target => a = b
        /\ \A k \in FiredScans : scans[k].target \notin scans[k].avail)
  /\ [][\A n \in DOMAIN values : n \in DOMAIN values' /\ values'[n] = values[n]]_vars

\* a run of two productive passes in which the caller supplied ldl although
\* the Friedewald rule could have derived it
C2_Witness ==
  /\ pc = "done"
  /\ "ldl" \in DOMAIN inputs
  /\ Satisfiable(TargetRules(engine, "ldl")[1], inputs)
  /\ Len(calculated) > 1
  /\ i > 1

\* C3: the rule that fires for a scanned target is the first of its candidate
\* list that satisfies the three conditions; no later candidate fires while an
\* earlier one is satisfiable, and when a candidate fails the next one is
\* tried in the same scan.  (What the v1 guard accepts is the subject of C1.)
C3_FirstSatisfiableWins ==
  \A k \in DOMAIN scans :
    LET rules == TargetRules(engine, scans[k].target)
        v == ValuesAt(scans[k].avail)
    IN /\ \A j \in DOMAIN rules : j < scans[k].fired => ~Satisfiable(rules[j], v)
       /\ scans[k].fired = 0 => \A j \in DOMAIN rules : ~Satisfiable(rules[j], v)
       /\ (scans[k].fired > 0 /\ engine # "v1") => Satisfiable(rules[scans[k].fired], v)

\* the second candidate of a target fired after the first one failed
C3_Witness ==
  \E k \in DOMAIN scans :
    /\ scans[k].fired = 2
    /\ ~Satisfiable(TargetRules(engine, scans[k].target)[1], ValuesAt(scans[k].avail))
    /\ scans[k].target \in DOMAIN values

PassesWithDerivation == {scans[k].pass : k \in FiredScans}

\* C4: the loop ends within the iteration cap of the engine; it stops at the
\* first pass that derives nothing new, or when the cap is reached.
C4_TerminatesWithinCap ==
  /\ i <= MAX_ITERATIONS(engine)
  /\ \A p \in 1..(i - 1) : p \in PassesWithDerivation
  /\ i > 0 => (found <=> i \in PassesWithDerivation)
  /\ pc = "cascade" => (i = 0 \/ found) /\ i < MAX_ITERATIONS(engine)
  /\ pc # "cascade" => i > 0 /\ (~found \/ i = MAX_ITERATIONS(engine))

\* the loop was left at the third pass, the first one that derived nothing
C4_Witness ==
  /\ pc # "cascade"
  /\ i = 3
  /\ ~found
  /\ PassesWithDerivation = {1, 2}

\* C5: the cap never cuts a run short: the loop is left because a pass derived
\* nothing, and on return no target absent from the value map has a rule
\* whose inputs are present, whose predicate holds and whose result is finite.
C5_CapNeverCutsShort ==
  pc # "cascade" =>
    /\ ~found
    /\ \A t \in Targets(engine) \ DOMAIN values :
         \A j \in DOMAIN TargetRules(engine, t) : ~Satisfiable(TargetRules(engine, t)[j], values)

\* a returned run of two productive passes that leaves targets underived
C5_Witness ==
  /\ pc = "done"
  /\ PassesWithDerivation = {1, 2}
  /\ Targets(engine) \ DOMAIN values # {}

\* n further passes over the current value map
RECURSIVE ExtraPasses(_, _)
ExtraPasses(st, n) ==
  IF n = 0 THEN st ELSE ExtraPasses(RunPass(engine, st, 1, i + n), n - 1)

\* C6: once a pass derives nothing new the value map is a fixpoint: any
\* number of further passes over it derives nothing new.
C6_FixpointIsStable ==
  (i > 0 /\ ~found) =>
    \A n \in 1..MaxExtraPasses :
      LET st == ExtraPasses([values |-> values, calculated |-> calculated, scans |-> <<>>], n)
      IN st.values = values /\ st.calculated = calculated

\* a pass derived nothing although targets are still absent
C6_Witness ==
  /\ i > 1
  /\ ~found
  /\ Len(calculated) > 0
  /\ Targets(engine) \ DOMAIN values # {}

\* C7: no input map, however malformed, makes the analysis call throw or end
\* in an error: the call returns a well-formed success result.
C7_NeverEndsInError ==
  pc = "done" => response.status = "success" /\ response.code = 200

\* a non-standard mode answered a body with a null under a target name and a
\* non-numeric cholesterol
C7_Witness ==
  /\ pc = "done"
  /\ engine = "v3"
  /\ response.mode = "clinician"
  /\ "insulin_sensitivity_proxy" \in DOMAIN inputs
  /\ \E n \in DOMAIN inputs : inputs[n].k = "str"
  /\ response.status = "success"

\* C9: |final value map| = |direct inputs| + |DerivationRecords|, and every
\* direct input is in the final map with the value the caller supplied, also
\* when its name is a rule target.
C9_MonotonicCoverage ==
  /\ Cardinality(DOMAIN values) = Cardinality(DOMAIN inputs) + Len(calculated)
  /\ \A n \in DOMAIN inputs : n \in DOMAIN values /\ values[n] = inputs[n]

\* a finished run with records whose inputs held a target name
C9_Witness ==
  /\ pc = "done"
  /\ Len(calculated) > 1
  /\ "bmi" \in DOMAIN inputs
  /\ {"weight_kg", "height_cm"} \subseteq DOMAIN inputs

\* ------------------------------------------------------------------------
\* The standalone constraint engine module (part_002)
\* ------------------------------------------------------------------------
CE_PHYSIOLOGICAL_BOUNDS ==
  [age |-> Bounds(0, 12000), bmi |-> Bounds(1000, 8000),
   weight_kg |-> Bounds(2000, 50000), height_cm |-> Bounds(5000, 25000),
   total_cholesterol |-> Bounds(5000, 50000), hdl |-> Bounds(500, 15000),
   ldl |-> Bounds(1000, 40000), triglycerides |-> Bounds(2000, 500000),
   fasting_glucose |-> Bounds(2000, 60000), fasting_insulin |-> Bounds(50, 30000),
   creatinine |-> Bounds(10, 2000), egfr |-> Bounds(0, 15000),
   hemoglobin |-> Bounds(300, 2200), hematocrit |-> Bounds(1000, 7000),
   wbc |-> Bounds(50, 10000), platelets |-> Bounds(1000, 150000),
   tsh |-> Bounds(1, 10000), ft4 |-> Bounds(10, 1000),
   sodium |-> Bounds(10000, 18000), potassium |-> Bounds(150, 900),
   calcium |-> Bounds(400, 1600), albumin |-> Bounds(100, 600),
   bilirubin |-> Bounds(10, 3000), ast |-> Bounds(500, 200000), alt |-> Bounds(500, 200000),
   hscrp |-> Bounds(0, 5000), ferritin |-> Bounds(100, 500000),
   vitamin_d |-> Bounds(400, 20000), b12 |-> Bounds(5000, 200000), hba1c |-> Bounds(300, 1800)]

\* the violations pushed for keys j.. of the inputs, in order
RECURSIVE InputViolations(_, _, _)
InputViolations(inp, keys, j) ==
  IF j > Len(keys) THEN <<>>
  ELSE LET key == keys[j]
           value == inp[key]
       IN (IF key \in DOMAIN CE_PHYSIOLOGICAL_BOUNDS /\ IsNumberTyped(value)
           THEN LET bounds == CE_PHYSIOLOGICAL_BOUNDS[key]
                IN IF JsLt(value, bounds.min)
                   THEN <<[field |-> key, value |-> value, issue |-> "below_minimum",
                           bound |-> bounds.min, severity |-> "error"]>>
                   ELSE IF JsGt(value, bounds.max)
                   THEN <<[field |-> key, value |-> value, issue |-> "above_maximum",
                           bound |-> bounds.max, severity |-> "error"]>>
                   ELSE <<>>
           ELSE <<>>)
          \o InputViolations(inp, keys, j + 1)

validateInputBounds(inp) == InputViolations(inp, KeysOf(DOMAIN inp), 1)

CE_DIRECTIONAL_RULES ==
  <<"lipid_triad", "insulin_resistance_consistency", "inflammatory_consistency",
    "kidney_egfr_creatinine", "anemia_consistency", "thyroid_pattern", "liver_pattern",
    "diabetes_glucose_hba1c">>

\* the flag of directional rule `id`, "" when its check returns null
CE_DirectionalCheck(id, v) ==
  CASE id = "lipid_triad" ->
         IF /\ JsGt(Get(v, "triglycerides"), Num(20000))
            /\ JsLt(Get(v, "hdl"), Num(4000))
            /\ JsLt(Get(v, "ldl"), Num(7000))
         THEN "unexpected" ELSE ""
    [] id = "insulin_resistance_consistency" ->
         IF \/ JsGt(Get(v, "homa_ir"), Num(400)) /\ JsLt(Get(v, "tyg_index"), Num(820))
            \/ JsLt(Get(v, "homa_ir"), Num(150)) /\ JsGt(Get(v, "tyg_index"), Num(950))
         THEN "inconsistent" ELSE ""
    [] id = "inflammatory_consistency" ->
         IF /\ JsGt(Get(v, "hscrp"), Num(500))
            /\ JsLt(Get(v, "nlr"), Num(200))
            /\ JsLt(Get(v, "plr"), Num(10000))
         THEN "review" ELSE ""
    [] id = "kidney_egfr_creatinine" ->
         IF JsGt(Get(v, "egfr"), Num(9000)) /\ JsGt(Get(v, "creatinine"), Num(150))
         THEN "calculation_error" ELSE ""
    [] id = "anemia_consistency" ->
         IF /\ Truthy(Get(v, "hemoglobin"))
            /\ Truthy(Get(v, "hematocrit"))
            /\ JsGt(MathAbs(JsSub(Get(v, "hematocrit"), JsMul(Get(v, "hemoglobin"), Num(300)))), Num(500))
         THEN "review" ELSE ""
    [] id = "thyroid_pattern" ->
         IF \/ JsGt(Get(v, "tsh"), Num(1000)) /\ JsGt(Get(v, "ft4"), Num(180))
            \/ JsLt(Get(v, "tsh"), Num(10)) /\ JsLt(Get(v, "ft4"), Num(80))
         THEN "unusual" ELSE ""
    [] id = "liver_pattern" ->
         IF /\ JsGt(Get(v, "ast"), JsMul(Num(1000), Get(v, "alt")))
            /\ JsGt(Get(v, "ast"), Num(20000))
         THEN "alert" ELSE ""
    [] OTHER ->
         IF \/ JsGt(Get(v, "hba1c"), Num(900)) /\ JsLt(Get(v, "fasting_glucose"), Num(10000))
            \/ JsLt(Get(v, "hba1c"), Num(550)) /\ JsGt(Get(v, "fasting_glucose"), Num(14000))
         THEN "inconsistent" ELSE ""

RECURSIVE checkDirectionalConsistency(_, _)
checkDirectionalConsistency(j, v) ==
  IF j > Len(CE_DIRECTIONAL_RULES) THEN <<>>
  ELSE LET f == CE_DirectionalCheck(CE_DIRECTIONAL_RULES[j], v)
       IN (IF f = "" THEN <<>> ELSE <<[rule_id |-> CE_DIRECTIONAL_RULES[j], flag |-> f]>>)
          \o checkDirectionalConsistency(j + 1, v)

MUTUAL_EXCLUSIONS == <<"thyroid_state", "kidney_function">>

ExclusionCheck(id, v) ==
  IF id = "thyroid_state"
  THEN IF /\ JsLt(Get(v, "tsh"), Num(40)) /\ JsGt(Get(v, "ft4"), Num(150))
          /\ JsGt(Get(v, "tsh"), Num(450)) /\ JsLt(Get(v, "ft4"), Num(80))
       THEN "impossible" ELSE ""
  ELSE IF /\ JsGt(Get(v, "egfr"), Num(10000))
          /\ Truthy(Get(v, "ckd_stage"))
          /\ JsGe(Get(v, "ckd_stage"), Num(300))
       THEN "impossible" ELSE ""

RECURSIVE checkMutualExclusions(_, _)
checkMutualExclusions(j, v) ==
  IF j > Len(MUTUAL_EXCLUSIONS) THEN <<>>
  ELSE LET f == ExclusionCheck(MUTUAL_EXCLUSIONS[j], v)
       IN (IF f = "" THEN <<>> ELSE <<[rule_id |-> MUTUAL_EXCLUSIONS[j], flag |-> f]>>)
          \o checkMutualExclusions(j + 1, v)

\* new Date().toISOString(): the text of the instant t
toISOString(t) == <<"T", t, "Z">>

\* runConstraintValidation called at clock time t
runConstraintValidation(inp, calc, t) ==
  LET allValues == calc @@ inp
  IN [input_violations |-> validateInputBounds(inp),
      directional_flags |-> checkDirectionalConsistency(1, allValues),
      exclusion_flags |-> checkMutualExclusions(1, allValues),
      timestamp |-> toISOString(t)]

Count(seq, flagset) == Cardinality({k \in DOMAIN seq : seq[k].flag \in flagset})

getConstraintSummary(validation) ==
  LET errors == Cardinality({k \in DOMAIN validation.input_violations :
                               validation.input_violations[k].severity = "error"})
      warnings == Count(validation.directional_flags, {"review", "unusual"})
      inconsistencies == Count(validation.directional_flags, {"inconsistent"})
      impossibles == Count(validation.exclusion_flags, {"impossible"})
  IN [status |-> IF impossibles > 0 \/ errors > 0 THEN "invalid"
                 ELSE IF inconsistencies > 0 THEN "inconsistent"
                 ELSE IF warnings > 0 THEN "review_recommended"
                 ELSE "valid",
      error_count |-> errors,
      warning_count |-> warnings,
      inconsistency_count |-> inconsistencies,
      impossible_count |-> impossibles]

\* runCascade as a function: the loop run to its end on the state st
RECURSIVE Cascade(_, _, _)
Cascade(e, st, passes) ==
  LET r == RunPass(e, st, 1, passes + 1)
  IN IF LoopContinues(e, FoundFlag(st.calculated, r.calculated), passes + 1)
     THEN Cascade(e, r, passes + 1)
     ELSE r

\* the validators also read kidney, glycation and thyroid markers
LibInputNames == InputNames \cup {"egfr", "creatinine", "hba1c", "tsh", "ft4"}

LibInputMaps ==
  UNION {MapsOver(S) : S \in {T \in SUBSET LibInputNames : Cardinality(T) <= MaxLibInputs}}

\* the caller has run the cascade and holds the inputs and what was derived from them
InitCE ==
  /\ engine = "v3"
  /\ inputs \in LibInputMaps
  /\ LET r == Cascade(engine, [values |-> inputs, calculated |-> <<>>, scans |-> <<>>], 0)
     IN values = r.values /\ calculated = r.calculated
  /\ i = 0
  /\ found = FALSE
  /\ constraints = [status |-> "none", violations |-> <<>>, flags |-> <<>>,
                    error_count |-> 0, warning_count |-> 0]
  /\ response = [status |-> "none", code |-> 0, mode |-> "none",
                 suggestions |-> [present |-> FALSE, list |-> <<>>],
                 states |-> [present |-> FALSE, results |-> <<>>]]
  /\ pc = "lib"
  /\ scans = <<>>
  /\ now = 0
  /\ reports = <<>>
  /\ summaries = <<>>
  /\ lastConf = NoConf
  /\ registry = CITATIONS
  /\ calls = <<>>

\* time passes between calls
Tick ==
  /\ pc = "lib"
  /\ now < MaxClock
  /\ now' = now + 1
  /\ UNCHANGED <<engine, inputs, values, calculated, i, found, constraints, response, pc, scans,
                 reports, summaries, lastConf, registry, calls>>

\* a caller validates the same inputs and their derived values once more
CallRunConstraintValidation ==
  /\ pc = "lib"
  /\ Len(reports) < MaxCalls
  /\ reports' = Append(reports, runConstraintValidation(inputs, CalcValues(calculated), now))
  /\ UNCHANGED <<engine, inputs, values, calculated, i, found, constraints, response, pc, scans,
                 now, summaries, lastConf, registry, calls>>

\* the caller summarises the next report it holds
CallGetConstraintSummary ==
  /\ pc = "lib"
  /\ Len(summaries) < Len(reports)
  /\ summaries' = Append(summaries, getConstraintSummary(reports[Len(summaries) + 1]))
  /\ UNCHANGED <<engine, inputs, values, calculated, i, found, constraints, response, pc, scans,
                 now, reports, lastConf, registry, calls>>

\* the worker's own validator on the same inputs and their derived values
CallValidateConstraints ==
  /\ pc = "lib"
  /\ constraints.status = "none"
  /\ constraints' = validateConstraints(inputs, CalcValues(calculated))
  /\ UNCHANGED <<engine, inputs, values, calculated, i, found, response, pc, scans,
                 now, reports, summaries, lastConf, registry, calls>>

NextCE ==
  \/ Tick
  \/ CallRunConstraintValidation
  \/ CallGetConstraintSummary
  \/ CallValidateConstraints

SpecCE == InitCE /\ [][NextCE]_vars

\* C8: running the analysis twice on identical input yields identical output,
\* the constraint-validation report included, byte for byte; nothing in the
\* output depends on when the call is made.
C8_IdenticalReports ==
  \A a, b \in DOMAIN reports : reports[a] = reports[b]

\* ------------------------------------------------------------------------
\* Confidence arithmetic of the standalone modules (src/priors.js) and the
\* prior and state confidences of part_001.  Scores are JavaScript numbers in
\* units of 1/unit.
\* ------------------------------------------------------------------------
RELIABILITY_CLASSES ==
  [lab_certified |-> [class |-> "A", variance |-> 2],
   lab_standard |-> [class |-> "A", variance |-> 5],
   device_consumer |-> [class |-> "B", variance |-> 8],
   self_measured |-> [class |-> "C", variance |-> 15],
   unknown |-> [class |-> "C", variance |-> 20]]

LAB_STANDARD_INPUTS ==
  {"total_cholesterol", "hdl", "ldl", "triglycerides", "fasting_glucose", "fasting_insulin",
   "creatinine", "hemoglobin", "hematocrit", "wbc", "platelets", "tsh", "ft4", "sodium",
   "potassium", "calcium", "albumin", "bilirubin", "ast", "alt", "hscrp", "ferritin",
   "vitamin_d", "b12", "hba1c"}

\* "" stands for a name without a default source
DEFAULT_INPUT_SOURCES(name) ==
  CASE name \in LAB_STANDARD_INPUTS -> "lab_standard"
    [] name \in {"weight_kg", "height_cm", "waist_cm", "hip_cm"} -> "self_measured"
    [] name \in {"sbp", "dbp"} -> "device_consumer"
    [] name \in {"age", "is_female"} -> "lab_certified"
    [] OTHER -> ""

\* called with the default inputSources = {}
getInputReliability(name) ==
  IF DEFAULT_INPUT_SOURCES(name) = "" THEN RELIABILITY_CLASSES.unknown
  ELSE RELIABILITY_CLASSES[DEFAULT_INPUT_SOURCES(name)]

RECURSIVE SumSquares(_)
SumSquares(S) ==
  IF S = {} THEN 0
  ELSE LET n == CHOOSE x \in S : TRUE
       IN getInputReliability(n).variance * getInputReliability(n).variance + SumSquares(S \ {n})

\* Math.sqrt on hundredths, truncated
MathSqrt(x) == CHOOSE r \in 0..200 : r * r <= x /\ x < (r + 1) * (r + 1)

ClassOrder(c) == CASE c = "A" -> 1 [] c = "B" -> 2 [] c = "C" -> 3 [] OTHER -> 4

\* propagateUncertainty: confidence_factor in 1/500
propagateUncertainty(requiredInputs) ==
  LET combinedVariance == MathSqrt(SumSquares(requiredInputs))
      cascadeMultiplier == IF Cardinality(requiredInputs) > 3 THEN 6 ELSE 5
      worst == IF requiredInputs = {} THEN "A"
               ELSE getInputReliability(CHOOSE n \in requiredInputs :
                      \A m \in requiredInputs :
                        ClassOrder(getInputReliability(m).class) <= ClassOrder(getInputReliability(n).class)).class
  IN [reliability_class |-> worst,
      confidence_factor |-> IF 500 - combinedVariance * cascadeMultiplier < 0 THEN 0
                            ELSE 500 - combinedVariance * cascadeMultiplier]

DIVISION_FORMULAS == {"ratio", "homa_ir", "quicki", "castelli_1", "castelli_2", "tg_hdl"}

LOG_FORMULAS == {"aip", "tyg", "meld"}

\* calculateSensitivity over Object.values(inputValues)
calculateSensitivity(formulaType, inputValues) ==
  IF /\ formulaType \in DIVISION_FORMULAS
     /\ \E x \in inputValues : TypeOf(x) = "number" /\ JsGt(x, Num(0)) /\ JsLt(x, Num(1000))
  THEN "fragile"
  ELSE IF /\ formulaType \in LOG_FORMULAS
          /\ \E x \in inputValues : TypeOf(x) = "number" /\ JsGt(x, Num(50)) /\ JsLt(x, Num(200))
  THEN "moderate"
  ELSE "stable"

NoSummary == [impossible_count |-> 0, inconsistency_count |-> 0, warning_count |-> 0]

\* buildConfidenceObject; providedInputs is the array of provided names
buildConfidenceObject(baseConfidence, formula, requiredInputs, providedInputs, cited, constraintStatus, iteration) ==
  LET evidenceGrade == IF cited THEN "peer_reviewed"
                       ELSE IF iteration = 1 THEN "direct_calculation"
                       ELSE IF iteration > 2 THEN "cascade_inference" ELSE "derived"
      len == Cardinality(requiredInputs)
      provided == Cardinality(requiredInputs \cap providedInputs)
      assumptionLoad == Cardinality({n \in requiredInputs : DEFAULT_INPUT_SOURCES(n) = ""})
      uncertainty == propagateUncertainty(requiredInputs)
      sensitivity == calculateSensitivity(formula, {Str(n) : n \in providedInputs})
      crossPanel == IF constraintStatus.impossible_count > 0 THEN "invalid"
                    ELSE IF constraintStatus.inconsistency_count > 0 THEN "inconsistent"
                    ELSE IF constraintStatus.warning_count > 0 THEN "flagged"
                    ELSE "consistent"
      sf == IF sensitivity = "fragile" THEN 17 ELSE IF sensitivity = "moderate" THEN 19 ELSE 20
      cf == IF crossPanel = "inconsistent" THEN 7 ELSE IF crossPanel = "flagged" THEN 9 ELSE 10
      num == baseConfidence * provided * uncertainty.confidence_factor * (20 - assumptionLoad) * sf * cf
      den == len * 500 * 20 * 20 * 10
  IN [score |-> IF len = 0 THEN NaN ELSE Num((num + den \div 2) \div den),
      evidence_grade |-> evidenceGrade,
      assumption_load |-> assumptionLoad,
      sensitivity |-> sensitivity,
      cross_panel_consistency |-> crossPanel,
      reliability_class |-> uncertainty.reliability_class,
      cascade_depth |-> iteration]

NoPrior == [mean |-> 0, sd |-> 0]

\* the factor, in hundredths, that the distance z from the prior mean selects
PriorAdjustment(z, boost) ==
  LET absZ == MathAbs(z)
  IN IF JsGt(absZ, Num(300)) THEN 70
     ELSE IF JsGt(absZ, Num(250)) THEN 80
     ELSE IF JsGt(absZ, Num(200)) THEN 90
     ELSE IF boost /\ JsLt(absZ, Num(100)) THEN 105
     ELSE 100

AdjustWithoutClamp(baseConfidence, value, prior) ==
  IF prior.mean = 0 \/ prior.sd = 0 THEN Num(baseConfidence * 100)
  ELSE Num(baseConfidence * PriorAdjustment(JsDiv(JsSub(value, Num(prior.mean)), Num(prior.sd)), TRUE))

\* priors.js adjustConfidenceWithPrior: base in 1/100, result in 1/10000
adjustConfidenceWithPrior(baseConfidence, value, prior) ==
  IF prior.mean = 0 \/ prior.sd = 0 THEN Num(baseConfidence * 100)
  ELSE LET x == baseConfidence * PriorAdjustment(JsDiv(JsSub(value, Num(prior.mean)), Num(prior.sd)), TRUE)
       IN Num(IF x > 10000 THEN 10000 ELSE x)

\* part_001 adjustConfidenceWithPrior: no boost for typical values
adjustConfidenceWithPrior_v3(baseConf, value, prior) ==
  IF prior.mean = 0 THEN Num(baseConf * 100)
  ELSE LET x == baseConf * PriorAdjustment(JsDiv(JsSub(value, Num(prior.mean)), Num(prior.sd)), FALSE)
       IN Num(IF x > 10000 THEN 10000 ELSE x)

\* every rule of the v3 registry
AllRules ==
  UNION {{INFERENCE_RULES_v3[t].rules[j] : j \in DOMAIN INFERENCE_RULES_v3[t].rules} :
           t \in DOMAIN INFERENCE_RULES_v3}

\* what validateConstraints can report to buildConfidence
ConstraintStatuses ==
  {[error_count |-> e, warning_count |-> w] : e \in {0, 1}, w \in {0, 1}}

\* what getConstraintSummary can report to buildConfidenceObject
ConstraintSummaries ==
  {[impossible_count |-> a, inconsistency_count |-> b, warning_count |-> c] :
     a \in {0, 1}, b \in {0, 1}, c \in {0, 1}}

\* rows of POPULATION_PRIORS (ldl, hdl male, total cholesterol at 40-49) and no prior
PriorsDrawn ==
  {NoPrior, [mean |-> 12000, sd |-> 3500], [mean |-> 4500, sd |-> 1200],
   [mean |-> 21000, sd |-> 4000]}

ValuesDrawn == {Num(13000), Num(4200), Num(30000), Num(0), Null, Str("abc")}

InitConf ==
  /\ engine = "v3"
  /\ inputs = EmptyMap
  /\ values = inputs
  /\ calculated = <<>>
  /\ i = 0
  /\ found = FALSE
  /\ constraints = [status |-> "none", violations |-> <<>>, flags |-> <<>>,
                    error_count |-> 0, warning_count |-> 0]
  /\ response = [status |-> "none", code |-> 0, mode |-> "none",
                 suggestions |-> [present |-> FALSE, list |-> <<>>],
                 states |-> [present |-> FALSE, results |-> <<>>]]
  /\ pc = "lib"
  /\ scans = <<>>
  /\ now = 0
  /\ reports = <<>>
  /\ summaries = <<>>
  /\ lastConf = NoConf
  /\ registry = CITATIONS
  /\ calls = <<>>

ConfUnchanged ==
  UNCHANGED <<engine, inputs, values, calculated, i, found, constraints, response, pc, scans,
              now, reports, summaries, registry, calls>>

\* pass 1 of runCascade: a rule fired at depth `it`
CallBuildConfidence ==
  /\ pc = "lib"
  /\ lastConf.fn = "none"
  /\ \E rule \in AllRules, it \in 1..MaxDepth :
       LET c == buildConfidence(rule.conf, rule.formula, it, rule.cite, NoConstraintStatus)
       IN lastConf' = [fn |-> "buildConfidence", score |-> Num(c.score), unit |-> 100,
                       method |-> rule.formula, iteration |-> it, citation |-> rule.cite, pass |-> 1,
                       base |-> rule.conf, req |-> rule.req, provided |-> rule.req]
  /\ ConfUnchanged

\* pass 2 of runCascade: the pass-1 score is the base of the second call
CallRescore ==
  /\ pc = "lib"
  /\ lastConf.fn = "buildConfidence"
  /\ lastConf.pass = 1
  /\ \E cons \in ConstraintStatuses :
       LET c == buildConfidence(lastConf.score.n, lastConf.method, lastConf.iteration,
                                lastConf.citation, cons)
       IN lastConf' = [lastConf EXCEPT !.score = Num(c.score), !.pass = 2, !.base = lastConf.score.n]
  /\ ConfUnchanged

CallBuildConfidenceObject ==
  /\ pc = "lib"
  /\ lastConf.fn = "none"
  /\ \E rule \in AllRules, it \in 1..MaxDepth, cons \in ConstraintSummaries :
       \E provided \in SUBSET rule.req :
         LET c == buildConfidenceObject(rule.conf, rule.formula, rule.req, provided, rule.cite, cons, it)
         IN lastConf' = [fn |-> "buildConfidenceObject", score |-> c.score, unit |-> 100,
                         method |-> rule.formula, iteration |-> it, citation |-> rule.cite, pass |-> 0,
                         base |-> rule.conf, req |-> rule.req, provided |-> provided]
  /\ ConfUnchanged

\* a score in hundredths is adjusted against a population prior
CallAdjustConfidenceWithPrior ==
  /\ pc = "lib"
  /\ lastConf.fn \in {"buildConfidence", "buildConfidenceObject"}
  /\ \E value \in ValuesDrawn, prior \in PriorsDrawn, v3 \in BOOLEAN :
       lastConf' = [lastConf EXCEPT
                      !.fn = "adjustConfidenceWithPrior",
                      !.unit = 10000,
                      !.score = IF v3 THEN adjustConfidenceWithPrior_v3(lastConf.score.n, value, prior)
                                ELSE adjustConfidenceWithPrior(lastConf.score.n, value, prior)]
  /\ ConfUnchanged

\* evaluateStates scores a state with 2 or 3 supporting signals
CallEvaluateStates ==
  /\ pc = "lib"
  /\ lastConf.fn = "none"
  /\ \E len \in {2, 3} : \E supporting \in 0..len :
       lastConf' = [NoConf EXCEPT !.fn = "evaluateStates", !.unit = 10000,
                                  !.score = StateConfidence(supporting, len)]
  /\ ConfUnchanged

NextConf ==
  \/ CallBuildConfidence
  \/ CallRescore
  \/ CallBuildConfidenceObject
  \/ CallAdjustConfidenceWithPrior
  \/ CallEvaluateStates

SpecConf == InitConf /\ [][NextConf]_vars

\* C10: every confidence score is a number in the closed interval [0,1], for
\* every rule, iteration depth, constraint status and prior adjustment.
C10_ScoreInUnitInterval ==
  /\ lastConf.score.k = "num"
  /\ 0 <= lastConf.score.n
  /\ lastConf.score.n <= lastConf.unit

\* a near-certain score was boosted by a typical value and clamped to 1
C10_Witness ==
  /\ lastConf.fn = "adjustConfidenceWithPrior"
  /\ lastConf.score = Num(10000)

\* ------------------------------------------------------------------------
\* Properties of scoring and validation
\* ------------------------------------------------------------------------
\* conf *= 0.90 when flagged, conf *= 0.70 when invalid: the factor in tenths
ConsistencyFactor(cons) ==
  IF cons.error_count > 0 THEN 7 ELSE IF cons.warning_count > 0 THEN 9 ELSE 10

\* C11: the final score of a record is its pass-1 score times the consistency
\* factor of the validation status and nothing else (the depth and sensitivity
\* penalties are applied once, in pass 1); when the status is valid the final
\* score equals the pass-1 score.
C11_FinalIsPass1TimesConsistency ==
  [][(pc = "finish" /\ engine = "v3") =>
       /\ Len(calculated') = Len(calculated)
       /\ \A k \in DOMAIN calculated :
            calculated'[k].confidence.score =
              RoundDiv(calculated[k].confidence.score * ConsistencyFactor(constraints'), 10)]_vars

\* C12: the consistency penalty is ordered by severity: for one record with a
\* positive pass-1 score, the final score under an invalid or inconsistent
\* status is lower than under a flagged status, which is lower than under a
\* valid status.
C12_PenaltyOrderedBySeverity ==
  /\ (lastConf.fn = "buildConfidence" /\ lastConf.pass = 2 /\ lastConf.base > 0) =>
       LET final(cs) == buildConfidence(lastConf.base, lastConf.method, lastConf.iteration,
                                        lastConf.citation, cs).score
           invalid == final([error_count |-> 1, warning_count |-> 0])
           flagged == final([error_count |-> 0, warning_count |-> 1])
           valid == final(NoConstraintStatus)
       IN invalid < flagged /\ flagged < valid
  /\ lastConf.fn = "buildConfidenceObject" =>
       LET final(cs) == buildConfidenceObject(lastConf.base, lastConf.method, lastConf.req,
                                              lastConf.provided, lastConf.citation, cs,
                                              lastConf.iteration).score.n
           invalid == final([NoSummary EXCEPT !.impossible_count = 1])
           inconsistent == final([NoSummary EXCEPT !.inconsistency_count = 1])
           flagged == final([NoSummary EXCEPT !.warning_count = 1])
           valid == final(NoSummary)
       IN valid > 0 => invalid < flagged /\ inconsistent < flagged /\ flagged < valid

\* the status the precedence rule gives to a set of violations and flags
PrecedenceStatus(violations, flags) ==
  IF \/ \E k \in DOMAIN violations : violations[k].severity \in {"impossible", "error"}
     \/ \E k \in DOMAIN flags : flags[k].flag \in {"impossible", "error"}
  THEN "invalid"
  ELSE IF \E k \in DOMAIN flags : flags[k].flag = "inconsistent" THEN "inconsistent"
  ELSE IF \E k \in DOMAIN flags : flags[k].flag \in {"review", "unusual"} THEN "review_recommended"
  ELSE "valid"

\* the worker's validator calls the third level "review"
StatusName(s) == IF s = "review" THEN "review_recommended" ELSE s

\* C13: the overall validation status follows a strict precedence: invalid if
\* any violation or flag has severity impossible or error; otherwise
\* inconsistent if any flag is inconsistent; otherwise review_recommended if
\* any flag is a warning; otherwise valid.
C13_StatusPrecedence ==
  /\ \A k \in DOMAIN summaries :
       summaries[k].status =
         PrecedenceStatus(reports[k].input_violations,
                          reports[k].directional_flags \o reports[k].exclusion_flags)
  /\ constraints.status # "none" =>
       StatusName(constraints.status) = PrecedenceStatus(constraints.violations, constraints.flags)

\* an eGFR above 90 together with a creatinine above 1.5 among the inputs
KidneyContradiction ==
  JsGt(Get(inputs, "egfr"), Num(9000)) /\ JsGt(Get(inputs, "creatinine"), Num(150))

\* C14: whenever eGFR is above 90 and creatinine above 1.5 (for example
\* egfr 95 with creatinine 1.6) the constraint validator emits a flag and the
\* overall validation status is invalid.
C14_KidneyContradictionInvalid ==
  KidneyContradiction =>
    /\ \A k \in DOMAIN reports :
         \E f \in DOMAIN reports[k].directional_flags :
           reports[k].directional_flags[f].rule_id = "kidney_egfr_creatinine"
    /\ \A k \in DOMAIN summaries : summaries[k].status = "invalid"
    /\ constraints.status # "none" =>
         /\ \E f \in DOMAIN constraints.flags : constraints.flags[f].rule = "kidney_check"
         /\ constraints.status = "invalid"

\* the request carries a triglycerides value of 400 or more and no ldl
HighTriglyceridesNoLdl ==
  JsGe(Get(inputs, "triglycerides"), Num(40000)) /\ "ldl" \notin DOMAIN inputs

\* C15: when triglycerides is 400 or more no LDL rule fires: ldl is absent
\* from the final value map and from the derivation records, also when total
\* cholesterol and HDL are present (ldl not being supplied directly).
C15_NoLdlAtHighTriglycerides ==
  HighTriglyceridesNoLdl =>
    /\ "ldl" \notin DOMAIN values
    /\ \A k \in DOMAIN calculated : calculated[k].name # "ldl"
    /\ \A k \in DOMAIN scans : scans[k].target = "ldl" => scans[k].fired = 0

\* a finished run on total cholesterol, HDL and triglycerides 450: the LDL
\* rules were tried and other targets were derived
C15_Witness ==
  /\ pc = "done"
  /\ HighTriglyceridesNoLdl
  /\ Get(inputs, "total_cholesterol") = Num(22000)
  /\ Get(inputs, "hdl") = Num(4200)
  /\ \E k \in DOMAIN scans : scans[k].target = "ldl"
  /\ \E k \in DOMAIN calculated : calculated[k].name = "vldl"

\* pairs of scans of one target, the first earlier in the run than the second
ScanPairs ==
  {p \in (DOMAIN scans) \X (DOMAIN scans) :
     p[1] < p[2] /\ scans[p[1]].target = scans[p[2]].target}

\* C16 as stated: a rule either fires or is skipped for good; a rule that was
\* evaluated and skipped in one pass does not fire in a later pass of the run.
C16_SkippedIsPermanent ==
  \A p \in ScanPairs : scans[p[1]].fired = 0 => scans[p[2]].fired = 0

\* C16, amended: a rule skipped in one pass is tried again in every later pass
\* while its target is absent; it fires later only if a required input it
\* lacked when skipped has been derived in between.  A target is scanned at
\* most once per pass and never again once one of its rules has fired.
C16_SkippedFiresOnlyOnNewInputs ==
  \A p \in ScanPairs :
    LET a == scans[p[1]]
        b == scans[p[2]]
    IN /\ a.fired = 0
       /\ a.pass < b.pass
       /\ b.fired > 0 => ~(TargetRules(engine, b.target)[b.fired].req \subseteq a.avail)

\* a finished run in which a rule skipped in one pass fired in a later one
C16_Witness ==
  /\ pc = "done"
  /\ \E p \in ScanPairs : scans[p[1]].fired = 0 /\ scans[p[2]].fired > 0

\* the rule that produced a record: the one of its target with the record's method
RuleOf(rec) ==
  LET rules == TargetRules(engine, rec.name)
  IN rules[CHOOSE j \in DOMAIN rules : rules[j].formula = rec.method]

\* C17: the iteration tag of a record is its dependency depth: a record tagged
\* iteration 1 was computed from direct inputs only, and every derived value
\* that a record's rule required was derived in a strictly earlier iteration.
C17_IterationIsDependencyDepth ==
  engine # "v1" =>
    \A k \in DOMAIN calculated :
      \A n \in RuleOf(calculated[k]).req \ DOMAIN inputs :
        \E m \in DOMAIN calculated :
          /\ calculated[m].name = n
          /\ calculated[m].iteration < calculated[k].iteration

\* the worker spells two grades shorter than the confidence module does
GradeName(g) ==
  CASE g = "direct" -> "direct_calculation"
    [] g = "cascade" -> "cascade_inference"
    [] OTHER -> g

\* C18: the evidence grade of a record is peer_reviewed when its rule has a
\* citation key; otherwise direct_calculation when it was derived at
\* iteration 1; otherwise (every uncited record from iteration 2 onward)
\* cascade_inference.
C18_EvidenceGrade ==
  engine = "v3" =>
    \A k \in DOMAIN calculated :
      GradeName(calculated[k].confidence.evidence_grade) =
        IF calculated[k].citation THEN "peer_reviewed"
        ELSE IF calculated[k].iteration = 1 THEN "direct_calculation"
        ELSE "cascade_inference"

\* a numeric input outside the range that the table B configures for its field
OutsideRange(n, B) ==
  /\ n \in DOMAIN B
  /\ inputs[n].k = "num"
  /\ (inputs[n].n < B[n].min.n \/ inputs[n].n > B[n].max.n)

\* the violations of a report against the numeric inputs and the table B
OnePerOutOfRangeInput(violations, B) ==
  \A n \in {x \in DOMAIN inputs : inputs[x].k = "num"} :
    LET hits == {k \in DOMAIN violations : violations[k].field = n}
    IN IF OutsideRange(n, B)
       THEN Cardinality(hits) = 1 /\ \A k \in hits : violations[k].severity = "error"
       ELSE hits = {}

\* C19: a direct input whose numeric value lies outside its configured range
\* produces exactly one violation, naming that field, with severity error,
\* and none for other fields; an in-range input produces none.
C19_OneViolationPerOutOfRangeInput ==
  /\ \A r \in DOMAIN reports :
       OnePerOutOfRangeInput(reports[r].input_violations, CE_PHYSIOLOGICAL_BOUNDS)
  /\ constraints.status # "none" =>
       OnePerOutOfRangeInput(constraints.violations, PHYSIOLOGICAL_BOUNDS)

\* both validators have reported on an HDL of 0 next to a total cholesterol of 220
C19_Witness ==
  /\ Get(inputs, "hdl") = Num(0)
  /\ Get(inputs, "total_cholesterol") = Num(22000)
  /\ Len(reports) > 0
  /\ Len(reports[1].input_violations) = 1
  /\ reports[1].input_violations[1].field = "hdl"
  /\ constraints.status = "invalid"
  /\ Len(constraints.violations) = 1

\* C20: a malformed direct input (non-numeric or null, for a field with a
\* configured range) is reported as a constraint violation in the returned
\* validation report, and the computation still proceeds to completion.
C20_MalformedInputReported ==
  (engine = "v3" /\ pc = "done") =>
    /\ response.status = "success"
    /\ \A n \in DOMAIN inputs \cap DOMAIN PHYSIOLOGICAL_BOUNDS :
         inputs[n].k # "num" =>
           \E k \in DOMAIN constraints.violations : constraints.violations[k].field = n

\* a derived numeric value outside the physiological range of its name
InvalidDerived(rec) ==
  /\ rec.name \in DOMAIN PHYSIOLOGICAL_BOUNDS
  /\ rec.value.k = "num"
  /\ OutOfRange(rec.value, PHYSIOLOGICAL_BOUNDS[rec.name])

\* C21: a derived value that is physiologically invalid (a negative LDL that
\* the Friedewald formula computes from in-range inputs, for example) is
\* flagged by the validation of the engine and not returned unflagged.
C21_InvalidDerivedValueFlagged ==
  (engine = "v3" /\ pc \in {"respond", "done"}) =>
    \A k \in DOMAIN calculated :
      InvalidDerived(calculated[k]) =>
        \/ constraints.status # "valid"
        \/ \E f \in DOMAIN constraints.flags : constraints.flags[f].rule = calculated[k].name
        \/ \E f \in DOMAIN constraints.violations :
             constraints.violations[f].field = calculated[k].name

\* request bodies that give all three required inputs of the two ldl rules
LdlInputMaps == MapsOver({"total_cholesterol", "hdl", "triglycerides"})

\* the run on the request body m ends with ldl recorded under `method`
DerivesLdlBy(e, m, method) ==
  LET r == Cascade(e, [values |-> m, calculated |-> <<>>, scans |-> <<>>], 0)
  IN \E k \in DOMAIN r.calculated :
       r.calculated[k].name = "ldl" /\ r.calculated[k].method = method

\* C22: the alternative ldl rule is usable: an engine that registers the
\* Martin-Hopkins rule has a request body on which Friedewald does not
\* produce ldl and Martin-Hopkins derives it in the same run.
C22_MartinHopkinsUsable ==
  (engine \in {"v2", "v3"}) =>
    \E m \in LdlInputMaps :
      /\ ~DerivesLdlBy(engine, m, "friedewald")
      /\ DerivesLdlBy(engine, m, "martin_hopkins")

\* ------------------------------------------------------------------------
\* Properties of the suggestions
\* ------------------------------------------------------------------------
\* the lipid panel without hdl
NoHdlInput == [total_cholesterol |-> Num(22000), triglycerides |-> Num(18500)]

NeedsHdl == {"ldl", "non_hdl", "castelli_1"}

\* the list recommends `missing` as the input that unlocks `target`
Recommends(list, target, missing) ==
  \E k \in DOMAIN list : list[k].target = target /\ list[k].missing = missing

\* C23 as stated: with total_cholesterol 220 and triglycerides 185 and no
\* hdl, ldl, non_hdl and castelli_1 are absent from the result and the
\* suggestion list of the response recommends hdl for each of the three.
C23_HdlRecommendedForAllThree ==
  (pc = "done" /\ inputs = NoHdlInput /\ response.suggestions.present) =>
    /\ \A t \in NeedsHdl : IsUndefined(values, t)
    /\ \A t \in NeedsHdl : Recommends(response.suggestions.list, t, "hdl")

\* C23: the three targets are absent and the list computed by getSuggestions,
\* which v1, v2 and the standard v3 response return whole, recommends hdl for
\* each of them; the clinician response keeps the first five entries of that
\* list, which recommend hdl for non_hdl and castelli_1 and no longer for ldl.
C23_HdlRecommendedInWholeList ==
  (pc = "done" /\ inputs = NoHdlInput /\ response.suggestions.present) =>
    /\ \A t \in NeedsHdl : IsUndefined(values, t)
    /\ response.mode # "clinician" =>
         \A t \in NeedsHdl : Recommends(response.suggestions.list, t, "hdl")
    /\ response.mode = "clinician" =>
         /\ Recommends(response.suggestions.list, "non_hdl", "hdl")
         /\ Recommends(response.suggestions.list, "castelli_1", "hdl")
         /\ ~Recommends(response.suggestions.list, "ldl", "hdl")

C23_Witness ==
  /\ pc = "done"
  /\ engine = "v3"
  /\ inputs = NoHdlInput
  /\ response.mode = "standard"
  /\ Recommends(response.suggestions.list, "ldl", "hdl")
  /\ Len(response.suggestions.list) = 10

\* the rules of the registry whose target is absent from the final value
\* map and that have exactly one required input absent from it
EligiblePairs ==
  {j \in DOMAIN REGISTRY(engine) :
     /\ REGISTRY(engine)[j].target \notin DOMAIN values
     /\ Cardinality(REGISTRY(engine)[j].req \ DOMAIN values) = 1}

\* the suggestion that names the target and the single missing input of rule j
PairOf(j) ==
  [target |-> REGISTRY(engine)[j].target,
   missing |-> CHOOSE r \in REGISTRY(engine)[j].req \ DOMAIN values : TRUE,
   confidence |-> REGISTRY(engine)[j].conf]

\* the N of the response: the limit of the engine, five for the clinician
TopN == IF response.mode = "clinician" THEN 5 ELSE SUGGESTION_LIMIT(engine)

Occurrences(list, s) == Cardinality({k \in DOMAIN list : list[k] = s})

\* C24: the suggestion list is the top N, in descending order of rule
\* confidence, of exactly the (target, rule) pairs whose target is absent
\* from the final value map and whose rule has exactly one required input
\* absent; every suggestion names that target and that missing input.
C24_SuggestionsAreTopNSingleMissing ==
  (pc = "done" /\ response.suggestions.present) =>
    LET list == response.suggestions.list
        pairs == EligiblePairs
        n == IF Cardinality(pairs) < TopN THEN Cardinality(pairs) ELSE TopN
    IN /\ Len(list) = n
       /\ \A a, b \in DOMAIN list : a < b => list[a].confidence >= list[b].confidence
       /\ \A k \in DOMAIN list :
            /\ \E j \in pairs : PairOf(j) = list[k]
            /\ Occurrences(list, list[k]) <= Cardinality({j \in pairs : PairOf(j) = list[k]})
       /\ \A j \in pairs :
            (n = 0 \/ Cardinality(pairs) <= TopN \/ PairOf(j).confidence > list[n].confidence) =>
              Occurrences(list, PairOf(j)) = Cardinality({j2 \in pairs : PairOf(j2) = PairOf(j)})

\* more pairs qualify than the list holds, and a target that lacks two inputs
\* of its rule is left out
C24_Witness ==
  /\ pc = "done"
  /\ response.suggestions.present
  /\ Cardinality(EligiblePairs) > TopN
  /\ Len(response.suggestions.list) = TopN
  /\ response.suggestions.list[1].confidence > response.suggestions.list[TopN].confidence
  /\ \E j \in DOMAIN REGISTRY(engine) :
       /\ REGISTRY(engine)[j].target \notin DOMAIN values
       /\ Cardinality(REGISTRY(engine)[j].req \ DOMAIN values) = 2

\* the run on the same direct inputs plus the value val for the input `missing`
\* derives `target`
Unlocks(e, direct, missing, val, target) ==
  LET r == Cascade(e, [values |-> (missing :> val) @@ direct, calculated |-> <<>>, scans |-> <<>>], 0)
  IN \E k \in DOMAIN r.calculated : r.calculated[k].name = target

\* C30: every suggestion is a real unlock: for each suggestion returned for a
\* run there is a value of the suggested missing input which, added alone to
\* the same direct inputs, makes the suggested target appear among the
\* derived values of the new run.
C30_SuggestionIsRealUnlock ==
  (pc = "done" /\ response.suggestions.present) =>
    \A k \in DOMAIN response.suggestions.list :
      LET s == response.suggestions.list[k]
      IN (s.target \in Targets(engine) /\ s.missing \in LibInputNames) =>
           \E val \in InputDomain(s.missing) : Unlocks(engine, inputs, s.missing, val, s.target)

\* ------------------------------------------------------------------------
\* Properties of the state evaluation
\* ------------------------------------------------------------------------
\* the required signals of a state that the value map lacks
AbsentRequired(def) == {def.required[x] : x \in DOMAIN def.required} \ DOMAIN values

\* C25: for each state of the catalog the result is {evaluated: false,
\* missing} exactly when at least one required signal of the state is absent
\* from the value map, with missing listing exactly the absent required
\* signals; when all required signals are present the state is evaluated and
\* carries the state and the score of its scoring function.
C25_EvaluatedIffRequiredPresent ==
  (pc = "done" /\ response.states.present) =>
    \A k \in DOMAIN PHYSIOLOGICAL_STATES :
      LET def == PHYSIOLOGICAL_STATES[k]
          res == response.states.results[k]
          score == StateScore(def.id, values)
      IN /\ ~res.evaluated <=> AbsentRequired(def) # {}
         /\ ~res.evaluated =>
              /\ {res.missing[x] : x \in DOMAIN res.missing} = AbsentRequired(def)
              /\ Len(res.missing) = Cardinality(AbsentRequired(def))
         /\ res.evaluated =>
              /\ res.state = StateOfScore(def.id, score)
              /\ res.score = IF score < 0 THEN 0 ELSE score

\* one state is evaluated and scored below 100 while another lacks one of its
\* two required signals
C25_Witness ==
  /\ pc = "done"
  /\ response.states.present
  /\ \E k \in DOMAIN PHYSIOLOGICAL_STATES :
       /\ response.states.results[k].evaluated
       /\ response.states.results[k].score < 100
  /\ \E k \in DOMAIN PHYSIOLOGICAL_STATES :
       /\ ~response.states.results[k].evaluated
       /\ Len(response.states.results[k].missing) = 1
       /\ Len(PHYSIOLOGICAL_STATES[k].required) = 2

C28_RecordsInEvaluationOrder ==
  \A k \in DOMAIN calculated :
    \A n \in RuleOf(calculated[k]).req :
      \/ n \in DOMAIN inputs
      \/ \E m \in 1..(k - 1) : calculated[m].name = n

\* a finished run with a record whose rule required two derived values
C28_Witness ==
  /\ pc = "done"
  /\ \E k \in DOMAIN calculated :
       Cardinality(RuleOf(calculated[k]).req \ DOMAIN inputs) >= 2

\* the place of the recorded method among the candidate rules of its target
MethodIndex(rec) ==
  CHOOSE j \in DOMAIN TargetRules(engine, rec.name) :
    TargetRules(engine, rec.name)[j].formula = rec.method

\* C29: for every derived target the rule recorded as its method is the
\* earliest-registered candidate that is satisfiable against the final value
\* map: no candidate listed before it has all its required inputs present, a
\* true predicate and a finite, defined formula result in the final map.
C29_MethodIsEarliestSatisfiable ==
  pc = "done" =>
    \A k \in DOMAIN calculated :
      \A j \in 1..(MethodIndex(calculated[k]) - 1) :
        ~Satisfiable(TargetRules(engine, calculated[k].name)[j], values)

\* a finished run that recorded the second candidate of a target
C29_Witness ==
  /\ pc = "done"
  /\ \E k \in DOMAIN calculated : MethodIndex(calculated[k]) = 2

\* ------------------------------------------------------------------------
\* Concurrent invocations of the v3 /analyze handler in a2 mode.  The
\* registries are module-level constants; the CITATIONS objects are the ones
\* an invocation holds references to (entry.citation), so they are kept in
\* the variable `registry` and every write of the handler is applied to the
\* object it lands on.  The steps of two invocations interleave freely;
\* successive invocations are the interleavings in which one is done before
\* the other starts.
\* ------------------------------------------------------------------------
MaxConcInputs == 3

Invocations == {1, 2}

ConcNames == {"total_cholesterol", "hdl", "triglycerides", "ldl"}

\* request bodies of the concurrent calls: plausible lipid values
ConcDomain(name) ==
  CASE name = "total_cholesterol" -> {Num(22000)}
    [] name = "hdl" -> {Num(4200)}
    [] name = "triglycerides" -> {Num(18500), Num(45000)}
    [] OTHER -> {Num(13000)}

RECURSIVE ConcMapsOver(_)
ConcMapsOver(S) ==
  IF S = {} THEN {EmptyMap}
  ELSE LET n == CHOOSE x \in S : TRUE
       IN {(n :> v) @@ m : v \in ConcDomain(n), m \in ConcMapsOver(S \ {n})}

ConcBodies ==
  UNION {ConcMapsOver(S) : S \in {T \in SUBSET ConcNames : Cardinality(T) <= MaxConcInputs}}

\* rule.cite of the rule with this formula: the key of its CITATIONS object
CiteKey(formula) ==
  CASE formula = "friedewald" -> "friedewald"
    [] formula = "martin_hopkins" -> "martin_hopkins"
    [] formula = "tg_div_5" -> "friedewald"
    [] formula = "remnant" -> "remnant"
    [] formula = "tc_hdl" -> "castelli"
    [] formula = "ldl_hdl" -> "castelli"
    [] formula = "ratio" -> "tg_hdl_ir"
    [] formula = "homa_ir" -> "homa_ir"
    [] formula = "tyg" -> "tyg_index"
    [] OTHER -> "none"

OUTPUT_TIERS ==
  [tier1_direct |-> {"bmi", "map", "pulse_pressure", "anion_gap", "non_hdl", "vldl"},
   tier2_derived |-> {"ldl", "homa_ir", "homa_beta", "egfr", "fib4", "nlr", "plr", "castelli_1",
                      "castelli_2", "atherogenic_index", "tg_hdl_ratio", "tyg_index", "quicki"},
   tier3_proxy |-> {"insulin_sensitivity_proxy", "metabolic_stress_state",
                    "inflammatory_burden_proxy", "cv_resilience_proxy", "hepatic_stress_proxy",
                    "thyroid_function_proxy", "kidney_stress_proxy", "mets_likelihood",
                    "anemia_type_proxy", "iron_status_proxy"}]

\* the label that categorizeOutputs assigns to a record
TierLabel(name) ==
  IF name \in OUTPUT_TIERS.tier1_direct THEN "direct_measure"
  ELSE IF name \in OUTPUT_TIERS.tier2_derived THEN "derived_calculation"
  ELSE IF name \in OUTPUT_TIERS.tier3_proxy THEN "physiological_proxy"
  ELSE "derived_calculation"

categorizeOnCitation(derived, reg) ==
  [derived |-> derived,
   registry |-> [key \in DOMAIN reg |->
                   IF \E k \in DOMAIN derived :
                        derived[k].citation /\ CiteKey(derived[k].method) = key
                   THEN LET k == CHOOSE x \in DOMAIN derived :
                                   derived[x].citation /\ CiteKey(derived[x].method) = key
                        IN ("tier" :> TierLabel(derived[k].name)) @@ reg[key]
                   ELSE reg[key]]]

\* categorizeOutputs: d.tier = label for every derived record d; the write
\* lands on the record of the invocation and on no object of the registry
categorizeOutputs(derived, reg) ==
  [derived |-> [k \in DOMAIN derived |-> ("tier" :> TierLabel(derived[k].name)) @@ derived[k]],
   registry |-> reg]

\* JSON.stringify of a record: entry.citation is read through the reference
Serialized(rec, reg) ==
  ("citation_object" :> IF rec.citation THEN reg[CiteKey(rec.method)] ELSE [pmid |-> "none"])
    @@ rec

\* the body of the a2 response, or of the 400 error of the catch
A2Response(derived, v, cons, reg) ==
  IF HandlerThrows("a2", derived, v, cons)
  THEN [status |-> "error", derived_by_tier |-> <<>>, constraints |-> cons,
        values |-> EmptyMap, states |-> <<>>]
  ELSE [status |-> "success",
        derived_by_tier |-> [k \in DOMAIN derived |-> Serialized(derived[k], reg)],
        constraints |-> cons, values |-> v, states |-> evaluateStates(v)]

NoResponse ==
  [status |-> "none", derived_by_tier |-> <<>>,
   constraints |-> [status |-> "none", violations |-> <<>>, flags |-> <<>>,
                    error_count |-> 0, warning_count |-> 0],
   values |-> EmptyMap, states |-> <<>>]

\* an invocation that has parsed its request body
NewCall(body) ==
  [inputs |-> body, values |-> body, calculated |-> <<>>, i |-> 0, found |-> FALSE,
   constraints |-> NoResponse.constraints, pc |-> "cascade", response |-> NoResponse,
   overlapped |-> FALSE]

\* another invocation is between its first step and its response
OtherInFlight(c) ==
  \E d \in Invocations \ {c} : calls[d].i > 0 /\ calls[d].pc # "done"

InitConc ==
  /\ engine = "v3"
  /\ inputs = EmptyMap
  /\ values = inputs
  /\ calculated = <<>>
  /\ i = 0
  /\ found = FALSE
  /\ constraints = NoResponse.constraints
  /\ response = [status |-> "none", code |-> 0, mode |-> "none",
                 suggestions |-> [present |-> FALSE, list |-> <<>>],
                 states |-> [present |-> FALSE, results |-> <<>>]]
  /\ pc = "conc"
  /\ scans = <<>>
  /\ now = 0
  /\ reports = <<>>
  /\ summaries = <<>>
  /\ lastConf = NoConf
  /\ registry = CITATIONS
  /\ calls \in [Invocations -> {NewCall(body) : body \in ConcBodies}]

ConcUnchanged ==
  UNCHANGED <<engine, inputs, values, calculated, i, found, constraints, response, pc, scans,
              now, reports, summaries, lastConf>>

\* one pass of runCascade in invocation c
ConcPass(c) ==
  /\ pc = "conc"
  /\ calls[c].pc = "cascade"
  /\ LET r == RunPass("v3", [values |-> calls[c].values, calculated |-> calls[c].calculated,
                            scans |-> <<>>], 1, calls[c].i + 1)
         f == FoundFlag(calls[c].calculated, r.calculated)
     IN calls' = [calls EXCEPT ![c] =
                    [@ EXCEPT !.values = r.values, !.calculated = r.calculated, !.found = f,
                              !.i = @ + 1,
                              !.pc = IF LoopContinues("v3", f, calls[c].i + 1)
                                     THEN "cascade" ELSE "finish",
                              !.overlapped = @ \/ OtherInFlight(c)]]
  /\ UNCHANGED registry
  /\ ConcUnchanged

\* the part of runCascade after the loop in invocation c
ConcFinish(c) ==
  /\ pc = "conc"
  /\ calls[c].pc = "finish"
  /\ LET cons == validateConstraints(calls[c].inputs, CalcValues(calls[c].calculated))
     IN calls' = [calls EXCEPT ![c] =
                    [@ EXCEPT !.constraints = cons,
                              !.calculated = UpdateConfidence(calls[c].calculated, cons),
                              !.pc = "respond",
                              !.overlapped = @ \/ OtherInFlight(c)]]
  /\ UNCHANGED registry
  /\ ConcUnchanged

\* invocation c labels its records and builds its response
ConcRespond(c) ==
  /\ pc = "conc"
  /\ calls[c].pc = "respond"
  /\ LET w == categorizeOutputs(calls[c].calculated, registry)
     IN /\ registry' = w.registry
        /\ calls' = [calls EXCEPT ![c] =
                       [@ EXCEPT !.calculated = w.derived,
                                 !.response = A2Response(w.derived, calls[c].values,
                                                         calls[c].constraints, w.registry),
                                 !.pc = "done",
                                 !.overlapped = @ \/ OtherInFlight(c)]]
  /\ ConcUnchanged

NextConc == \E c \in Invocations : ConcPass(c) \/ ConcFinish(c) \/ ConcRespond(c)

SpecConc == InitConc /\ [][NextConc]_vars

\* the response of an invocation that runs alone on the request body
SoloResponse(body) ==
  LET r == Cascade("v3", [values |-> body, calculated |-> <<>>, scans |-> <<>>], 0)
      cons == validateConstraints(body, CalcValues(r.calculated))
      w == categorizeOutputs(UpdateConfidence(r.calculated, cons), CITATIONS)
  IN A2Response(w.derived, r.values, cons, w.registry)

\* C26: an analysis call never mutates the registries nor any object
\* reachable from them, so under any interleaving of concurrent or
\* successive invocations each invocation returns exactly the result it
\* would return if run alone.
C26_InvocationsDoNotInterfere ==
  pc = "conc" =>
    /\ registry = CITATIONS
    /\ \A c \in Invocations :
         calls[c].pc = "done" => calls[c].response = SoloResponse(calls[c].inputs)

\* two overlapping invocations with different bodies have both answered, and
\* records of both refer to the same citation object
C26_Witness ==
  /\ pc = "conc"
  /\ \A c \in Invocations : calls[c].pc = "done" /\ calls[c].overlapped
  /\ calls[1].inputs # calls[2].inputs
  /\ calls[1].response.status = "success"
  /\ calls[2].response.status = "success"
  /\ \E a \in DOMAIN calls[1].calculated, b \in DOMAIN calls[2].calculated :
       /\ calls[1].calculated[a].citation
       /\ calls[2].calculated[b].citation
       /\ calls[1].calculated[a].name # calls[2].calculated[b].name
       /\ CiteKey(calls[1].calculated[a].method) = CiteKey(calls[2].calculated[b].method)

====
